---- MODULE Spec2Model ----
(***************************************************************************)
(* Model of the query resolution core of tesseract: the logic-layer        *)
(* resolver (generate_ts_queries, clean_cuts_map, resolve_cuts), the       *)
(* metadata cache it reads (populate_cache, CubeCache::get_time_cut) and   *)
(* the schema binder (Schema::sql_query and its helpers).                  *)
(*                                                                         *)
(* Conventions.                                                            *)
(*  - A Rust String is a sequence of symbols.  A symbol is a single        *)
(*    character ("," ":" "." "0".."9" "+") or a word that no split ever    *)
(*    cuts apart ("latest", "c1", "County", ...).                          *)
(*  - Option<T>: None is <<>>, Some(x) is <<x>>.                           *)
(*  - A HashMap is a function with a finite domain.  Where the code        *)
(*    iterates over a HashMap, the iteration order is a nondeterministic   *)
(*    choice of a permutation of its keys.                                 *)
(*  - Result<T, Error>: a record with a field ok; the error carries the    *)
(*    name of the place that raised it.                                    *)
(***************************************************************************)
EXTENDS Integers, Sequences, FiniteSets, TLC

(***************************************************************************)
(* Bounds of the model.                                                    *)
(***************************************************************************)
\* total number of cut values (over all cut keys) of a generated request
MaxCutAtoms == 3
\* number of level tokens in a generated drilldown argument
MaxDrillTokens == 2
MaxBindDrills == 2

None == <<>>
Some(x) == <<x>>
IsSome(o) == o # <<>>
Unwrap(o) == o[1]

\* a one-symbol string
W(sym) == <<sym>>

(***************************************************************************)
(* Strings.                                                                *)
(***************************************************************************)
RECURSIVE SplitAcc(_, _, _, _, _)
SplitAcc(s, sep, i, cur, acc) ==
    IF i > Len(s) THEN Append(acc, cur)
    ELSE IF s[i] = sep THEN SplitAcc(s, sep, i + 1, <<>>, Append(acc, cur))
    ELSE SplitAcc(s, sep, i + 1, Append(cur, s[i]), acc)

\* str::split(sep): always at least one piece, the empty string splits into <<"">>
Split(s, sep) == SplitAcc(s, sep, 1, <<>>, <<>>)

RECURSIVE Join(_, _)
\* [String]::join(sep)
Join(parts, sep) ==
    IF parts = <<>> THEN <<>>
    ELSE IF Len(parts) = 1 THEN parts[1]
    ELSE parts[1] \o <<sep>> \o Join(Tail(parts), sep)

RECURSIVE Concat(_)
\* the concatenation of a sequence of sequences
Concat(ss) == IF ss = <<>> THEN <<>> ELSE ss[1] \o Concat(Tail(ss))

\* Vec::contains
Contains(seq, x) == \E i \in 1..Len(seq) : seq[i] = x

\* the permutations of a finite set, as sequences: the orders a HashMap may iterate in
RECURSIVE Perms(_)
Perms(S) ==
    IF S = {} THEN {<<>>}
    ELSE UNION {{<<x>> \o p : p \in Perms(S \ {x})} : x \in S}

\* HashMap::insert
MapInsert(m, k, v) == [x \in (DOMAIN m) \cup {k} |-> IF x = k THEN v ELSE m[x]]
\* HashMap::entry(k).or_insert(v)
MapOrInsert(m, k, v) == IF k \in DOMAIN m THEN m ELSE MapInsert(m, k, v)
\* HashMap::remove
MapRemove(m, k) == [x \in (DOMAIN m) \ {k} |-> m[x]]
EmptyMap == <<>>
RangeOf(seq) == {seq[i] : i \in 1..Len(seq)}

(***************************************************************************)
(* The schema: one cube.                                                   *)
(***************************************************************************)
LevelNameOf(d, h, l) == [dimension |-> d, hierarchy |-> h, level |-> l]

NationLevel == [name |-> "Nation", key_column |-> "nation_id",
                name_column |-> Some("nation_name"), properties |-> None]
StateLevel == [name |-> "State", key_column |-> "state_id",
               name_column |-> None, properties |-> None]
CountyLevel == [name |-> "County", key_column |-> "county_id",
                name_column |-> Some("county_name"),
                properties |-> Some(<<[name |-> "Area", column |-> "area"]>>)]
CategoryLevel == [name |-> "Category", key_column |-> "category_id",
                  name_column |-> None, properties |-> None]
ItemLevel == [name |-> "Item", key_column |-> "item_id",
              name_column |-> Some("item_name"),
              properties |-> Some(<<[name |-> "Price", column |-> "price"],
                                    [name |-> "Color", column |-> "color"]>>)]
YearLevel == [name |-> "Year", key_column |-> "year",
              name_column |-> None, properties |-> None]

GeographyDim ==
    [name |-> "Geography", is_shared |-> FALSE, foreign_key |-> Some("geo_id"),
     dim_type |-> "Geo", foreign_key_type |-> None,
     hierarchies |-> <<[name |-> "Geography", table |-> Some([name |-> "geo"]),
                        inline_table |-> None,
                        primary_key |-> "geo_id",
                        levels |-> <<NationLevel, StateLevel, CountyLevel>>]>>]
ProductDim ==
    [name |-> "Product", is_shared |-> FALSE, foreign_key |-> Some("product_id"),
     dim_type |-> "Standard", foreign_key_type |-> None,
     hierarchies |-> <<[name |-> "Product", table |-> Some([name |-> "product"]),
                        inline_table |-> None,
                        primary_key |-> "product_id",
                        levels |-> <<CategoryLevel, ItemLevel>>]>>]
TimeDim ==
    [name |-> "Time", is_shared |-> FALSE, foreign_key |-> Some("year"),
     dim_type |-> "Time", foreign_key_type |-> None,
     hierarchies |-> <<[name |-> "Time", table |-> None,
                        inline_table |-> None,
                        primary_key |-> "year",
                        levels |-> <<YearLevel>>]>>]

SalesCube ==
    [name |-> "Sales",
     table |-> [name |-> "sales", primary_key |-> None],
     dimensions |-> <<GeographyDim, ProductDim, TimeDim>>,
     measures |-> <<[name |-> "Revenue", column |-> "revenue", aggregator |-> "sum"],
                    [name |-> "Quantity", column |-> "quantity", aggregator |-> "avg"]>>]

\* the (dimension, hierarchy, level) triples of a cube in the order of the nested
\* `for dimension / for hierarchy / for level` loops
RECURSIVE LevelsOfHier(_, _, _)
LevelsOfHier(d, h, i) ==
    IF i > Len(h.levels) THEN <<>>
    ELSE <<[dim |-> d, hier |-> h, level |-> h.levels[i]]>> \o LevelsOfHier(d, h, i + 1)
RECURSIVE LevelsOfDim(_, _)
LevelsOfDim(d, j) ==
    IF j > Len(d.hierarchies) THEN <<>>
    ELSE LevelsOfHier(d, d.hierarchies[j], 1) \o LevelsOfDim(d, j + 1)
RECURSIVE LevelsOfCube(_, _)
LevelsOfCube(cube, k) ==
    IF k > Len(cube.dimensions) THEN <<>>
    ELSE LevelsOfDim(cube.dimensions[k], 1) \o LevelsOfCube(cube, k + 1)

\* index of the first TRUE of a sequence of test results, 0 when there is none
\* (Iterator::position / Iterator::find)
FirstIndex(hits) ==
    IF \E i \in 1..Len(hits) : hits[i]
    THEN CHOOSE i \in 1..Len(hits) : hits[i] /\ \A j \in 1..(i - 1) : ~hits[j]
    ELSE 0

\* the hierarchy a LevelName names: <<dimension, hierarchy>> or None
FindHier(cube, ln) ==
    LET di == FirstIndex([i_ \in 1..Len(cube.dimensions) |-> cube.dimensions[i_].name = ln.dimension]) IN
    IF di = 0 THEN None
    ELSE LET d == cube.dimensions[di]
             hi == FirstIndex([i_ \in 1..Len(d.hierarchies) |-> d.hierarchies[i_].name = ln.hierarchy]) IN
         IF hi = 0 THEN None ELSE Some([dim |-> d, hier |-> d.hierarchies[hi]])

\* index of the level in its hierarchy, 0 when the name resolves to nothing
LevelIdx(cube, ln) ==
    LET fh == FindHier(cube, ln) IN
    IF fh = None THEN 0
    ELSE FirstIndex([i_ \in 1..Len(Unwrap(fh).hier.levels) |-> Unwrap(fh).hier.levels[i_].name = ln.level])

\* Cube::get_level: Option<Level>
get_level(cube, ln) ==
    IF LevelIdx(cube, ln) = 0 THEN None
    ELSE Some(Unwrap(FindHier(cube, ln)).hier.levels[LevelIdx(cube, ln)])

\* Cube::get_dimension: Option<Dimension>
get_dimension(cube, ln) ==
    IF LevelIdx(cube, ln) = 0 THEN None ELSE Some(Unwrap(FindHier(cube, ln)).dim)

\* Cube::get_level_parents: the levels strictly above, top first
get_level_parents(cube, ln) ==
    IF LevelIdx(cube, ln) = 0 THEN [ok |-> FALSE, val |-> <<>>]
    ELSE [ok |-> TRUE,
          val |-> SubSeq(Unwrap(FindHier(cube, ln)).hier.levels, 1, LevelIdx(cube, ln) - 1)]

\* Cube::get_child_level: the next deeper level, if any
get_child_level(cube, ln) ==
    IF LevelIdx(cube, ln) = 0 THEN [ok |-> FALSE, val |-> None]
    ELSE LET ls == Unwrap(FindHier(cube, ln)).hier.levels
             i == LevelIdx(cube, ln) IN
         [ok |-> TRUE, val |-> IF i < Len(ls) THEN Some(ls[i + 1]) ELSE None]

(***************************************************************************)
(* The back-end tables the cache is built from.                            *)
(***************************************************************************)
\* member ids in ascending order of the back-end's sort
IdOrder == <<W("c1"), W("c2"), W("i1"), W("i2"), W("i3"), W("k1"), W("k2"),
             W("n1"), W("n2"), W("r1"), W("r2"), W("s1"), W("s2"),
             W("t1"), W("t2"), W("t3"),
             W("8"), W("9"), <<"1", "0">>>>
Rank(id) == CHOOSE i \in 1..Len(IdOrder) : IdOrder[i] = id

\* County "s1" (in State s2 of Nation n1) has the same key as State "s1" (in Nation n2)
GeoRows == <<[nation_id |-> W("n2"), state_id |-> W("s1"), county_id |-> W("c1")],
             [nation_id |-> W("n1"), state_id |-> W("s2"), county_id |-> W("c2")],
             [nation_id |-> W("n1"), state_id |-> W("s2"), county_id |-> W("s1")]>>
ProductRows == <<[category_id |-> W("k1"), item_id |-> W("i1")],
                 [category_id |-> W("k1"), item_id |-> W("i2")],
                 [category_id |-> W("k2"), item_id |-> W("i3")]>>
SalesRows == <<[year |-> W("8")], [year |-> W("9")], [year |-> <<"1", "0">>]>>
Tables == [geo |-> GeoRows, product |-> ProductRows, sales |-> SalesRows]

RECURSIVE SortedSeq(_)
\* a set of ids in ascending order
SortedSeq(S) ==
    IF S = {} THEN <<>>
    ELSE LET m == CHOOSE x \in S : \A y \in S : Rank(x) <= Rank(y)
         IN <<m>> \o SortedSeq(S \ {m})

RECURSIVE SortedPairs(_)
\* a set of pairs of ids in ascending lexicographic order (order by 1, 2)
SortedPairs(S) ==
    IF S = {} THEN <<>>
    ELSE LET m == CHOOSE x \in S : \A y \in S :
                     \/ Rank(x[1]) < Rank(y[1])
                     \/ Rank(x[1]) = Rank(y[1]) /\ Rank(x[2]) <= Rank(y[2])
         IN <<m>> \o SortedPairs(S \ {m})

\* get_distinct_values: `select distinct column from table`, sorted; db is the
\* content of the back-end when the query runs
get_distinct_values(column, table, db) ==
    SortedSeq({db[table][i][column] : i \in 1..Len(db[table])})

\* `select distinct a, b from table group by a, b order by a, b`
DistinctPairs(a, b, table, db) ==
    SortedPairs({<<db[table][i][a], db[table][i][b]>> : i \in 1..Len(db[table])})

RECURSIVE ParentLoop(_, _, _)
ParentLoop(rows, i, parent_data) ==
    IF i > Len(rows) THEN parent_data
    ELSE ParentLoop(rows, i + 1, MapInsert(parent_data, rows[i][2], rows[i][1]))

\* get_parent_data: current key -> parent key
get_parent_data(parent_level, current_level, table, db) ==
    ParentLoop(DistinctPairs(parent_level.key_column, current_level.key_column, table, db),
               1, EmptyMap)

RECURSIVE ChildrenLoop(_, _, _, _, _)
ChildrenLoop(rows, i, current_value, current_children, children_data) ==
    IF i > Len(rows)
    THEN MapInsert(children_data, current_value, current_children)
    ELSE IF current_value = <<>>
         THEN ChildrenLoop(rows, i + 1, rows[i][1],
                           Append(current_children, rows[i][2]), children_data)
         ELSE IF rows[i][1] # current_value
              THEN ChildrenLoop(rows, i + 1, rows[i][1], <<rows[i][2]>>,
                                MapInsert(children_data, current_value, current_children))
              ELSE ChildrenLoop(rows, i + 1, rows[i][1],
                                Append(current_children, rows[i][2]), children_data)

\* get_children_data: current key -> child keys
get_children_data(current_level, child_level, table, db) ==
    ChildrenLoop(DistinctPairs(current_level.key_column, child_level.key_column, table, db),
                 1, <<>>, <<>>, EmptyMap)

RECURSIVE RowValues(_, _, _)
\* the values of one row of an inline table that stand under a column
RowValues(row_values, column, j) ==
    IF j > Len(row_values) THEN <<>>
    ELSE (IF row_values[j].column = column THEN <<row_values[j].value>> ELSE <<>>)
         \o RowValues(row_values, column, j + 1)
RECURSIVE InlineColumn(_, _, _)
\* `for row in &inline_table.rows`: the values under a column, row after row
InlineColumn(inline_table, column, i) ==
    IF i > Len(inline_table.rows) THEN <<>>
    ELSE RowValues(inline_table.rows[i].row_values, column, 1)
         \o InlineColumn(inline_table, column, i + 1)
\* the pairs (first[i], second[i]) for every index of the column `over`
Zip(first, second, over) == [i \in 1..Len(over) |-> <<first[i], second[i]>>]

\* get_inline_parent_data: current key -> parent key
get_inline_parent_data(parent_level, current_level, inline_table) ==
    LET parent_column == InlineColumn(inline_table, parent_level.key_column, 1)
        current_column == IF current_level.key_column = parent_level.key_column THEN <<>>
                          ELSE InlineColumn(inline_table, current_level.key_column, 1)
    IN  ParentLoop(Zip(parent_column, current_column, current_column), 1, EmptyMap)

\* get_inline_children_data: current key -> child keys
get_inline_children_data(current_level, child_level, inline_table) ==
    LET current_column == InlineColumn(inline_table, current_level.key_column, 1)
        children_column == IF child_level.key_column = current_level.key_column THEN <<>>
                           ELSE InlineColumn(inline_table, child_level.key_column, 1)
    IN  ChildrenLoop(Zip(current_column, children_column, current_column),
                     1, <<>>, <<>>, EmptyMap)

\* the slice v[a..b] of a Vec (0-based, b excluded); it panics unless a <= b <= len
SliceOk(v, a, b) == a <= b /\ b <= Len(v)
Slice(v, a, b) == SubSeq(v, a + 1, b)

RECURSIVE NeighborsLoop(_, _, _, _, _)
NeighborsLoop(distinct_ids, prev, curr, next, neighbors_map) ==
    LET max_index == Len(distinct_ids)
        b_from == IF prev = 0 /\ curr <= 1 THEN 0 ELSE prev
        a_to == IF next >= max_index THEN max_index ELSE next + 1
    IN
    IF \/ ~SliceOk(distinct_ids, b_from, curr)
       \/ ~SliceOk(distinct_ids, curr + 1, a_to)
       \/ curr >= max_index
    THEN [panicked |-> TRUE, map |-> neighbors_map]
    ELSE LET before == Slice(distinct_ids, b_from, curr)
             after == Slice(distinct_ids, curr + 1, a_to)
             m == MapInsert(neighbors_map, distinct_ids[curr + 1], before \o after)
         IN IF curr + 1 = max_index
            THEN [panicked |-> FALSE, map |-> m]
            ELSE NeighborsLoop(distinct_ids, IF curr >= 2 THEN prev + 1 ELSE prev,
                               curr + 1, next + 1, m)

\* get_neighbors_map with a window that starts one place after the key only
get_neighbors_map_next_1(distinct_ids) == NeighborsLoop(distinct_ids, 0, 0, 1, EmptyMap)

\* get_neighbors_map: key -> the keys up to two places before and after it
get_neighbors_map(distinct_ids) == NeighborsLoop(distinct_ids, 0, 0, 2, EmptyMap)

(***************************************************************************)
(* The logic-layer configuration.                                          *)
(***************************************************************************)
\* one configuration: the level Product.Item is named "SKU", and the named set
\* "cheap" of level SKU stands for the members i1, i2
ConfigA ==
    [level_names |-> <<[level_name |-> LevelNameOf("Product", "Product", "Item"),
                        unique_name |-> "SKU"]>>,
     named_sets |-> <<[level_name |-> "SKU", set_name |-> W("cheap"),
                       values |-> <<W("i1"), W("i2")>>]>>]

\* LogicLayerConfig::find_unique_cube_level_name: the configured name of a level
find_unique_cube_level_name(cfg, level_name) ==
    LET i == FirstIndex([i_ \in 1..Len(cfg.level_names) |-> cfg.level_names[i_].level_name = level_name]) IN
    IF i = 0 THEN None ELSE Some(cfg.level_names[i].unique_name)

\* LogicLayerConfig::substitute_cut: a named set's values for its name, else the value
substitute_cut(cfg, cut_key, cut_value) ==
    LET i == FirstIndex([i_ \in 1..Len(cfg.named_sets) |-> cfg.named_sets[i_].level_name = cut_key /\ cfg.named_sets[i_].set_name = cut_value]) IN
    IF i = 0 THEN cut_value ELSE Join(cfg.named_sets[i].values, ",")

\* LogicLayerConfig::substitute_drill_value: the level of a named set given as a drilldown
substitute_drill_value(cfg, level_value) ==
    LET i == FirstIndex([i_ \in 1..Len(cfg.named_sets) |-> cfg.named_sets[i_].set_name = level_value]) IN
    IF i = 0 THEN None ELSE Some(cfg.named_sets[i].level_name)

(***************************************************************************)
(* populate_cache.                                                         *)
(***************************************************************************)
\* get_unique_level_name / the naming rule of get_level_map
UniqueLevelName(ll_config, level_name) ==
    IF ll_config = None THEN level_name.level
    ELSE LET o == find_unique_cube_level_name(Unwrap(ll_config), level_name) IN
         IF o = None THEN level_name.level ELSE Unwrap(o)

EntryLevelName(e) == LevelNameOf(e.dim.name, e.hier.name, e.level.name)
EntryTable(cube, e) == IF e.hier.table = None THEN cube.table.name
                       ELSE Unwrap(e.hier.table).name

RECURSIVE LevelMapLoop(_, _, _, _)
LevelMapLoop(entries, ll_config, i, level_name_map) ==
    IF i > Len(entries) THEN level_name_map
    ELSE LevelMapLoop(entries, ll_config, i + 1,
                      MapInsert(level_name_map,
                                UniqueLevelName(ll_config, EntryLevelName(entries[i])),
                                EntryLevelName(entries[i])))

\* get_level_map: unique short name -> LevelName
get_level_map(cube, ll_config) == LevelMapLoop(LevelsOfCube(cube, 1), ll_config, 1, EmptyMap)

\* populate_cache, lines 330-388: the ids of a level, from the rows of the inline
\* table or from the back-end
DistinctIdsOf(cube, e) ==
    IF e.hier.inline_table # None
    THEN InlineColumn(Unwrap(e.hier.inline_table), e.level.key_column, 1)
    ELSE get_distinct_values(e.level.key_column, EntryTable(cube, e), Tables)

\* the LevelCache populate_cache builds for one level
LevelCacheOf(cube, e) ==
    LET ln == EntryLevelName(e)
        parent_levels == get_level_parents(cube, ln).val
        child_level == get_child_level(cube, ln).val
        table == EntryTable(cube, e)
        inline == e.hier.inline_table # None
    IN [parent_map |-> IF Len(parent_levels) >= 1
                       THEN (IF inline
                             THEN Some(get_inline_parent_data(
                                          parent_levels[Len(parent_levels)], e.level,
                                          Unwrap(e.hier.inline_table)))
                             ELSE Some(get_parent_data(parent_levels[Len(parent_levels)],
                                                       e.level, table, Tables)))
                       ELSE None,
        children_map |-> IF child_level # None
                         THEN (IF inline
                               THEN Some(get_inline_children_data(
                                            e.level, Unwrap(child_level),
                                            Unwrap(e.hier.inline_table)))
                               ELSE Some(get_children_data(e.level, Unwrap(child_level),
                                                           table, Tables)))
                         ELSE None,
        neighbors_map |-> get_neighbors_map(DistinctIdsOf(cube, e)).map]

RECURSIVE LevelCachesLoop(_, _, _, _, _)
LevelCachesLoop(cube, entries, ll_config, i, level_caches) ==
    IF i > Len(entries) THEN level_caches
    ELSE LevelCachesLoop(cube, entries, ll_config, i + 1,
                         MapInsert(level_caches,
                                   UniqueLevelName(ll_config, EntryLevelName(entries[i])),
                                   LevelCacheOf(cube, entries[i])))

RECURSIVE PushIds(_, _, _, _)
\* `for distinct_id in distinct_ids`: push the level's name onto the entry of each id
PushIds(id_map, distinct_ids, i, level_name) ==
    IF i > Len(distinct_ids) THEN id_map
    ELSE LET m == MapOrInsert(id_map, distinct_ids[i], <<>>) IN
         PushIds(MapInsert(m, distinct_ids[i], Append(m[distinct_ids[i]], level_name)),
                 distinct_ids, i + 1, level_name)

RECURSIVE IdMapLoop(_, _, _, _)
IdMapLoop(cube, entries, i, id_map) ==
    IF i > Len(entries) THEN id_map
    ELSE IdMapLoop(cube, entries, i + 1,
                   PushIds(id_map, DistinctIdsOf(cube, entries[i]),
                           1, EntryLevelName(entries[i])))

RECURSIVE DimensionCachesLoop(_, _, _)
DimensionCachesLoop(cube, k, dimension_caches) ==
    IF k > Len(cube.dimensions) THEN dimension_caches
    ELSE DimensionCachesLoop(cube, k + 1,
            MapInsert(dimension_caches, cube.dimensions[k].name,
                      [id_map |-> IdMapLoop(cube, LevelsOfDim(cube.dimensions[k], 1),
                                            1, EmptyMap)]))

RECURSIVE PropsOfLevel(_, _, _)
PropsOfLevel(e, props, i) ==
    IF i > Len(props) THEN <<>>
    ELSE <<[level_name |-> EntryLevelName(e), property |-> props[i].name]>>
         \o PropsOfLevel(e, props, i + 1)

RECURSIVE PropertyMapLoop(_, _, _)
\* get_property_map: property short name -> Property (no name is configured for a
\* property, so every property goes by its plain name)
PropertyMapLoop(entries, i, property_map) ==
    IF i > Len(entries) THEN property_map
    ELSE LET ps == IF entries[i].level.properties = None THEN <<>>
                   ELSE PropsOfLevel(entries[i], Unwrap(entries[i].level.properties), 1)
             ins[k \in 0..Len(ps)] ==
                 IF k = 0 THEN property_map
                 ELSE MapInsert(ins[k - 1], ps[k].property, ps[k])
         IN PropertyMapLoop(entries, i + 1, ins[Len(ps)])

get_property_map(cube, ll_config) == PropertyMapLoop(LevelsOfCube(cube, 1), 1, EmptyMap)

\* the last level of the cube with a reserved time name: the level and its table
TimeEntryOf(cube, name) ==
    LET entries == LevelsOfCube(cube, 1)
        hits == {i \in 1..Len(entries) : entries[i].level.name = name}
    IN IF hits = {} THEN None
       ELSE Some(entries[CHOOSE i \in hits : \A j \in hits : j <= i])

TimeLevelOf(cube, name) ==
    IF TimeEntryOf(cube, name) = None THEN None
    ELSE Some(Unwrap(TimeEntryOf(cube, name)).level)

\* the value list of a time level: a probe of its own, made before the probe for
\* the level's ids, so it sees the back-end as it is at that moment (probe_db)
TimeValuesOf(cube, name, probe_db) ==
    IF TimeEntryOf(cube, name) = None THEN None
    ELSE Some(get_distinct_values(Unwrap(TimeEntryOf(cube, name)).level.key_column,
                                  EntryTable(cube, Unwrap(TimeEntryOf(cube, name))),
                                  probe_db))

\* populate_cache, for one cube
populate_cache(cube, ll_config, probe_db) ==
    [name |-> cube.name,
     year_level |-> TimeLevelOf(cube, "Year"),
     year_values |-> TimeValuesOf(cube, "Year", probe_db),
     quarter_level |-> TimeLevelOf(cube, "Quarter"),
     quarter_values |-> TimeValuesOf(cube, "Quarter", probe_db),
     month_level |-> TimeLevelOf(cube, "Month"),
     month_values |-> TimeValuesOf(cube, "Month", probe_db),
     week_level |-> TimeLevelOf(cube, "Week"),
     week_values |-> TimeValuesOf(cube, "Week", probe_db),
     day_level |-> TimeLevelOf(cube, "Day"),
     day_values |-> TimeValuesOf(cube, "Day", probe_db),
     level_map |-> get_level_map(cube, ll_config),
     property_map |-> get_property_map(cube, ll_config),
     level_caches |-> LevelCachesLoop(cube, LevelsOfCube(cube, 1), ll_config, 1, EmptyMap),
     dimension_caches |-> DimensionCachesLoop(cube, 1, EmptyMap)]

(***************************************************************************)
(* Time tokens (cache.rs).                                                 *)
(***************************************************************************)
Digits == {"0", "1", "2", "3", "4", "5", "6", "7", "8", "9"}
\* u32::MAX = 4294967295, as its decimal digits
U32MaxDigits == <<"4", "2", "9", "4", "9", "6", "7", "2", "9", "5">>
DigitVal(d) == CHOOSE n \in 0..9 : ToString(n) = d

RECURSIVE StripZeros(_)
StripZeros(ds) == IF Len(ds) > 1 /\ ds[1] = "0" THEN StripZeros(Tail(ds)) ELSE ds

\* a < b for two digit strings without leading zeros
RECURSIVE DigitsLess(_, _)
DigitsLess(a, b) ==
    IF Len(a) # Len(b) THEN Len(a) < Len(b)
    ELSE IF a = <<>> THEN FALSE
    ELSE IF a[1] # b[1] THEN DigitVal(a[1]) < DigitVal(b[1])
    ELSE DigitsLess(Tail(a), Tail(b))

\* str::parse::<u32>() followed by u32::to_string(): an optional "+", then one or
\* more digits, no more than u32::MAX; the number is kept as its decimal rendering
ParseU32(raw) ==
    LET body == IF raw # <<>> /\ raw[1] = "+" THEN Tail(raw) ELSE raw IN
    IF body = <<>> \/ (\E i \in 1..Len(body) : body[i] \notin Digits)
    THEN [ok |-> FALSE, val |-> <<>>]
    ELSE IF DigitsLess(U32MaxDigits, StripZeros(body))
         THEN [ok |-> FALSE, val |-> <<>>]
         ELSE [ok |-> TRUE, val |-> StripZeros(body)]

\* TimeValue::from_str
TimeValue_from_str(raw) ==
    IF raw = W("latest") THEN [ok |-> TRUE, val |-> [kind |-> "Last", n |-> <<>>]]
    ELSE IF raw = W("oldest") THEN [ok |-> TRUE, val |-> [kind |-> "First", n |-> <<>>]]
    ELSE IF ParseU32(raw).ok
         THEN [ok |-> TRUE, val |-> [kind |-> "Value", n |-> ParseU32(raw).val]]
         ELSE [ok |-> FALSE, val |-> [kind |-> "Err", n |-> <<>>]]

\* TimePrecision::from_str
TimePrecision_from_str(raw) ==
    IF raw = W("year") THEN [ok |-> TRUE, val |-> "Year"]
    ELSE IF raw = W("quarter") THEN [ok |-> TRUE, val |-> "Quarter"]
    ELSE IF raw = W("month") THEN [ok |-> TRUE, val |-> "Month"]
    ELSE IF raw = W("week") THEN [ok |-> TRUE, val |-> "Week"]
    ELSE IF raw = W("day") THEN [ok |-> TRUE, val |-> "Day"]
    ELSE [ok |-> FALSE, val |-> "Err"]

\* Time::from_key_value
Time_from_key_value(key, value) ==
    IF ~TimePrecision_from_str(key).ok THEN [ok |-> FALSE, val |-> <<>>]
    ELSE IF ~TimeValue_from_str(value).ok THEN [ok |-> FALSE, val |-> <<>>]
    ELSE [ok |-> TRUE, val |-> [precision |-> TimePrecision_from_str(key).val,
                                value |-> TimeValue_from_str(value).val]]

\* CubeCache::get_level_name
get_level_name(level) == IF level = None THEN None ELSE Some(Unwrap(level).name)

\* get_value with First and Last taking each other's end of the list
get_value_swapped(time, opt) ==
    IF opt = None THEN None
    ELSE LET v == Unwrap(opt) IN
         IF time.value.kind = "First"
         THEN (IF Len(v) >= 1 THEN Some(v[Len(v)]) ELSE None)
         ELSE IF time.value.kind = "Last"
              THEN (IF Len(v) >= 1 THEN Some(v[1]) ELSE None)
              ELSE Some(time.value.n)

\* get_value answering the empty string over an empty list
get_value_empty_default(time, opt) ==
    IF opt = None THEN None
    ELSE LET v == Unwrap(opt) IN
         IF time.value.kind = "First"
         THEN (IF Len(v) >= 1 THEN Some(v[1]) ELSE Some(<<>>))
         ELSE IF time.value.kind = "Last"
              THEN (IF Len(v) >= 1 THEN Some(v[Len(v)]) ELSE Some(<<>>))
              ELSE Some(time.value.n)

\* CubeCache::get_value
get_value(time, opt) ==
    IF opt = None THEN None
    ELSE LET v == Unwrap(opt) IN
         IF time.value.kind = "First"
         THEN (IF Len(v) >= 1 THEN Some(v[1]) ELSE None)
         ELSE IF time.value.kind = "Last"
              THEN (IF Len(v) >= 1 THEN Some(v[Len(v)]) ELSE None)
              ELSE Some(time.value.n)

\* CubeCache::get_time_cut: Ok((level name, value)) or an error
get_time_cut(cache, time) ==
    LET val_res == IF time.precision = "Year" THEN get_value(time, cache.year_values)
                   ELSE IF time.precision = "Quarter" THEN get_value(time, cache.quarter_values)
                   ELSE IF time.precision = "Month" THEN get_value(time, cache.month_values)
                   ELSE IF time.precision = "Week" THEN get_value(time, cache.week_values)
                   ELSE get_value(time, cache.day_values)
        ln_res == IF time.precision = "Year" THEN get_level_name(cache.year_level)
                  ELSE IF time.precision = "Quarter" THEN get_level_name(cache.quarter_level)
                  ELSE IF time.precision = "Month" THEN get_level_name(cache.month_level)
                  ELSE IF time.precision = "Week" THEN get_level_name(cache.week_level)
                  ELSE get_level_name(cache.day_level)
    IN IF val_res = None THEN [ok |-> FALSE, cut |-> "", cut_value |-> <<>>]
       ELSE IF ln_res = None THEN [ok |-> FALSE, cut |-> "", cut_value |-> <<>>]
       ELSE [ok |-> TRUE, cut |-> Unwrap(ln_res), cut_value |-> Unwrap(val_res)]

(***************************************************************************)
(* clean_cuts_map (aggregate.rs).                                          *)
(***************************************************************************)
RECURSIVE TimeCutsLoop(_, _, _, _)
\* `for time_cut in time_cuts`: each time cut is resolved and inserted
TimeCutsLoop(cache, time_cuts, i, cuts) ==
    IF i > Len(time_cuts) THEN [ok |-> TRUE, cuts |-> cuts]
    ELSE LET tc == Split(time_cuts[i], ".") IN
         IF Len(tc) # 2 THEN [ok |-> FALSE, cuts |-> cuts]
         ELSE LET time == Time_from_key_value(tc[1], tc[2]) IN
              IF ~time.ok THEN [ok |-> FALSE, cuts |-> cuts]
              ELSE LET c == get_time_cut(cache, time.val) IN
                   IF ~c.ok THEN [ok |-> FALSE, cuts |-> cuts]
                   ELSE TimeCutsLoop(cache, time_cuts, i + 1,
                                     MapInsert(cuts, c.cut, c.cut_value))

\* the `time` parameter of the request, resolved into the cut map
InjectTimeCuts(req, cache) ==
    IF req.time = None THEN [ok |-> TRUE, cuts |-> req.cuts]
    ELSE TimeCutsLoop(cache, Split(Unwrap(req.time), ","), 1, req.cuts)

RECURSIVE SubstituteValues(_, _, _, _, _)
SubstituteValues(ll_config, cut_key, cut_values_split, i, final_cuts) ==
    IF i > Len(cut_values_split) THEN final_cuts
    ELSE LET cut_value == cut_values_split[i] IN
         IF ll_config = None
         THEN SubstituteValues(ll_config, cut_key, cut_values_split, i + 1,
                               Append(final_cuts, cut_value))
         ELSE LET new_cut_values == substitute_cut(Unwrap(ll_config), cut_key, cut_value) IN
              IF new_cut_values # cut_value
              THEN SubstituteValues(ll_config, cut_key, cut_values_split, i + 1,
                                    final_cuts \o Split(new_cut_values, ","))
              ELSE SubstituteValues(ll_config, cut_key, cut_values_split, i + 1,
                                    Append(final_cuts, new_cut_values))

\* the named-set substitution of every cut (each key is rewritten on its own, so
\* the order of the iteration does not matter)
SubstituteNamedSets(cuts, ll_config) ==
    [k \in DOMAIN cuts |->
        IF cuts[k] = <<>> THEN cuts[k]
        ELSE Join(SubstituteValues(ll_config, k, Split(cuts[k], ","), 1, <<>>), ",")]

\* clean_cuts_map
clean_cuts_map(req, cache, ll_config) ==
    LET t == InjectTimeCuts(req, cache) IN
    IF ~t.ok THEN [ok |-> FALSE, cuts |-> EmptyMap]
    ELSE [ok |-> TRUE, cuts |-> SubstituteNamedSets(t.cuts, ll_config)]

(***************************************************************************)
(* resolve_cuts (aggregate.rs).                                            *)
(***************************************************************************)
\* a lookup with a parsed string as the key, in a map whose keys are names
GetByStr(m, str) == IF Len(str) = 1 /\ str[1] \in DOMAIN m THEN Some(m[str[1]]) ELSE None
\* a lookup in a map from strings
Get(m, k) == IF k \in DOMAIN m THEN Some(m[k]) ELSE None

\* add_cut_entries
add_cut_entries(dimension_cuts_map, level_name, elements) ==
    LET m1 == MapOrInsert(dimension_cuts_map, level_name.dimension, EmptyMap)
        inner == MapOrInsert(m1[level_name.dimension], level_name, <<>>)
    IN MapInsert(m1, level_name.dimension,
                 MapInsert(inner, level_name, inner[level_name] \o elements))

\* the geoservice: geo = "down" is a failed call, else the ids it answers
query_geoservice(geo, cut) == IF geo = "down" THEN [ok |-> FALSE, ids |-> <<>>]
                              ELSE [ok |-> TRUE, ids |-> <<W("g1"), W("g2")>>]

Fail(st, why) == [st EXCEPT !.err = why]

\* operation == "children"
CutChildren(st, cube, cache, level_name, cut) ==
    LET cl == get_child_level(cube, level_name) IN
    IF ~cl.ok THEN Fail(st, "get_child_level")
    ELSE IF cl.val = None THEN st
    ELSE LET child_level_name == LevelNameOf(level_name.dimension, level_name.hierarchy,
                                             Unwrap(cl.val).name)
             st1 == [st EXCEPT !.header_map =
                        MapOrInsert(@, child_level_name.level, child_level_name.dimension)]
             level_cache == Get(cache.level_caches, level_name.level)
         IN IF level_cache = None THEN Fail(st1, "no level cache")
            ELSE IF Unwrap(level_cache).children_map = None THEN st1
            ELSE LET children_ids == Get(Unwrap(Unwrap(level_cache).children_map), cut) IN
                 IF children_ids = None THEN st1
                 ELSE [st1 EXCEPT !.dcm = add_cut_entries(@, child_level_name,
                                                         Unwrap(children_ids))]

RECURSIVE ParentsLoop(_, _, _, _, _, _)
\* `for parent_level in parent_levels.iter().rev()`; i counts down
ParentsLoop(st, cache, level_name, parent_levels, i, cut) ==
    IF i = 0 THEN st
    ELSE LET parent_level_name == LevelNameOf(level_name.dimension, level_name.hierarchy,
                                              parent_levels[i].name)
             st1 == [st EXCEPT !.header_map =
                        MapOrInsert(@, parent_level_name.level, parent_level_name.dimension)]
             level_cache == Get(cache.level_caches, level_name.level)
         IN IF level_cache = None THEN Fail(st1, "no level cache")
            ELSE IF Unwrap(level_cache).parent_map = None
                 THEN ParentsLoop(st1, cache, level_name, parent_levels, i - 1, cut)
            ELSE LET parent_id == Get(Unwrap(Unwrap(level_cache).parent_map), cut) IN
                 IF parent_id = None
                 THEN ParentsLoop(st1, cache, level_name, parent_levels, i - 1, cut)
                 ELSE ParentsLoop([st1 EXCEPT !.dcm = add_cut_entries(@, parent_level_name,
                                                                    <<Unwrap(parent_id)>>)],
                                  cache, parent_level_name, parent_levels, i - 1, cut)

\* operation == "parents"
CutParents(st, cube, cache, level_name, cut) ==
    LET pl == get_level_parents(cube, level_name) IN
    IF ~pl.ok THEN Fail(st, "get_level_parents")
    ELSE IF pl.val = <<>> THEN st
    ELSE ParentsLoop(st, cache, level_name, pl.val, Len(pl.val), cut)

\* CutNeighbors falling back to the cached neighbors when no URL is configured
CutNeighbors_cache_without_url(st, cube, cache, geoservice_url, geo, level_name, cut) ==
    LET dimension == get_dimension(cube, level_name) IN
    IF dimension = None THEN Fail(st, "no dimension")
    ELSE IF Unwrap(dimension).dim_type = "Geo" /\ geoservice_url # None
         THEN LET r == query_geoservice(geo, cut)
                  called == [st EXCEPT !.geo_calls = @ + 1]
              IN IF ~r.ok THEN Fail(called, "geoservice")
                 ELSE [called EXCEPT !.dcm = add_cut_entries(@, level_name, r.ids)]
         ELSE LET level_cache == Get(cache.level_caches, level_name.level) IN
              IF level_cache = None THEN Fail(st, "no level cache")
              ELSE LET neighbors_ids == Get(Unwrap(level_cache).neighbors_map, cut) IN
                   IF neighbors_ids = None THEN st
                   ELSE [st EXCEPT !.dcm = add_cut_entries(@, level_name,
                                                          Unwrap(neighbors_ids))]

\* operation == "neighbors"
CutNeighbors(st, cube, cache, geoservice_url, geo, level_name, cut) ==
    LET dimension == get_dimension(cube, level_name) IN
    IF dimension = None THEN Fail(st, "no dimension")
    ELSE IF Unwrap(dimension).dim_type = "Geo"
         THEN IF geoservice_url # None
              THEN LET r == query_geoservice(geo, cut)
                       called == [st EXCEPT !.geo_calls = @ + 1]
                   IN IF ~r.ok THEN Fail(called, "geoservice")
                      ELSE [called EXCEPT !.dcm = add_cut_entries(@, level_name, r.ids)]
              ELSE Fail(st, "no geoservice url")
         ELSE LET level_cache == Get(cache.level_caches, level_name.level) IN
              IF level_cache = None THEN Fail(st, "no level cache")
              ELSE LET neighbors_ids == Get(Unwrap(level_cache).neighbors_map, cut) IN
                   IF neighbors_ids = None THEN st
                   ELSE [st EXCEPT !.dcm = add_cut_entries(@, level_name,
                                                          Unwrap(neighbors_ids))]

\* CutLevelName taking the first level of an ambiguous element
CutLevelName_first_match(st, cache, cut_key, cut) ==
    LET dimension_cache == Get(cache.dimension_caches, cut_key) IN
    IF dimension_cache # None
    THEN LET level_names == Get(Unwrap(dimension_cache).id_map, cut) IN
         IF level_names = None \/ Unwrap(level_names) = <<>>
         THEN [st |-> st, skip |-> TRUE, level_name |-> <<>>]
         ELSE [st |-> st, skip |-> FALSE, level_name |-> Unwrap(level_names)[1]]
    ELSE LET ln == Get(cache.level_map, cut_key) IN
         IF ln = None THEN [st |-> st, skip |-> TRUE, level_name |-> <<>>]
         ELSE [st |-> [st EXCEPT !.level_matches = Append(@, Unwrap(ln))],
               skip |-> FALSE, level_name |-> Unwrap(ln)]

\* the LevelName of one cut value: through the id index of the dimension cut_key
\* names, else through the level map.  skip: the value is dropped.
CutLevelName(st, cache, cut_key, cut) ==
    LET dimension_cache == Get(cache.dimension_caches, cut_key) IN
    IF dimension_cache # None
    THEN LET level_names == Get(Unwrap(dimension_cache).id_map, cut) IN
         IF level_names = None THEN [st |-> st, skip |-> TRUE, level_name |-> <<>>]
         ELSE IF Len(Unwrap(level_names)) > 1
              THEN [st |-> Fail(st, "matches multiple levels"), skip |-> TRUE,
                    level_name |-> <<>>]
              ELSE IF Len(Unwrap(level_names)) = 0
                   THEN [st |-> Fail(st, "matches no levels"), skip |-> TRUE,
                         level_name |-> <<>>]
                   ELSE [st |-> st, skip |-> FALSE, level_name |-> Unwrap(level_names)[1]]
    ELSE LET ln == Get(cache.level_map, cut_key) IN
         IF ln = None THEN [st |-> st, skip |-> TRUE, level_name |-> <<>>]
         ELSE [st |-> [st EXCEPT !.level_matches = Append(@, Unwrap(ln))],
               skip |-> FALSE, level_name |-> Unwrap(ln)]

\* the body of `for cut_value in &cut_values`
CutValueStep(st, cube, cache, geoservice_url, geo, cut_key, cut_value) ==
    LET elements == Split(cut_value, ":")
        cut == elements[1]
        r == CutLevelName(st, cache, cut_key, cut)
    IN IF r.skip THEN r.st
       ELSE LET level_name == r.level_name
                st1 == [r.st EXCEPT !.header_map =
                            MapOrInsert(@, level_name.level, level_name.dimension)]
            IN IF Len(elements) = 1
               THEN [st1 EXCEPT !.dcm = add_cut_entries(@, level_name, <<cut>>)]
               ELSE IF Len(elements) = 2
                    THEN LET operation == elements[2] IN
                         IF operation = W("children")
                         THEN CutChildren(st1, cube, cache, level_name, cut)
                         ELSE IF operation = W("parents")
                         THEN CutParents(st1, cube, cache, level_name, cut)
                         ELSE IF operation = W("neighbors")
                         THEN CutNeighbors(st1, cube, cache, geoservice_url, geo,
                                           level_name, cut)
                         ELSE Fail(st1, "unrecognized operation")
                    ELSE Fail(st1, "multiple cut operations")

RECURSIVE CutValuesLoop(_, _, _, _, _, _, _, _)
CutValuesLoop(st, cube, cache, geoservice_url, geo, cut_key, cut_values, i) ==
    IF i > Len(cut_values) \/ st.err # "" THEN st
    ELSE CutValuesLoop(CutValueStep(st, cube, cache, geoservice_url, geo, cut_key,
                                    cut_values[i]),
                       cube, cache, geoservice_url, geo, cut_key, cut_values, i + 1)

RECURSIVE CutKeysLoop(_, _, _, _, _, _, _, _)
\* `for (cut_key, cut_values) in cuts_map.iter()`, in the order key_order
CutKeysLoop(st, cube, cache, geoservice_url, geo, cuts_map, key_order, i) ==
    IF i > Len(key_order) \/ st.err # "" THEN st
    ELSE IF cuts_map[key_order[i]] = <<>>
         THEN CutKeysLoop(st, cube, cache, geoservice_url, geo, cuts_map, key_order, i + 1)
         ELSE CutKeysLoop(CutValuesLoop(st, cube, cache, geoservice_url, geo, key_order[i],
                                        Split(cuts_map[key_order[i]], ","), 1),
                          cube, cache, geoservice_url, geo, cuts_map, key_order, i + 1)

\* the header removals without the test of level_matches
HeaderRemovals_every_single_level(dcm, level_matches) ==
    {ln.level : ln \in {l \in UNION {DOMAIN dcm[d] : d \in DOMAIN dcm} :
                          Cardinality(DOMAIN dcm[l.dimension]) = 1}}

\* the levels whose entry leaves the header map at the end: the only level cut in
\* its dimension, when it was matched through the level map
HeaderRemovals(dcm, level_matches) ==
    {ln.level : ln \in {l \in UNION {DOMAIN dcm[d] : d \in DOMAIN dcm} :
                          /\ Cardinality(DOMAIN dcm[l.dimension]) = 1
                          /\ Contains(level_matches, l)}}

\* resolve_cuts; key_order is the order in which cuts_map is iterated
resolve_cuts(cuts_map, cube, cache, geoservice_url, geo, key_order) ==
    LET st0 == [dcm |-> EmptyMap, header_map |-> EmptyMap, level_matches |-> <<>>,
                err |-> "", geo_calls |-> 0]
        st == CutKeysLoop(st0, cube, cache, geoservice_url, geo, cuts_map, key_order, 1)
    IN IF st.err # "" THEN [st0 EXCEPT !.err = st.err, !.geo_calls = st.geo_calls]
       ELSE [st EXCEPT !.header_map =
                [k \in (DOMAIN st.header_map) \ HeaderRemovals(st.dcm, st.level_matches)
                    |-> st.header_map[k]]]

(***************************************************************************)
(* generate_ts_queries (aggregate.rs).                                     *)
(***************************************************************************)
RECURSIVE DeserializeLoop(_, _, _, _, _)
DeserializeLoop(arg, i, open, curr_str, arg_vec) ==
    IF i > Len(arg)
    THEN (IF Len(curr_str) >= 1 THEN Append(arg_vec, curr_str) ELSE arg_vec)
    ELSE IF arg[i] = "[" THEN DeserializeLoop(arg, i + 1, TRUE, curr_str, arg_vec)
    ELSE IF arg[i] = "]" THEN DeserializeLoop(arg, i + 1, FALSE, curr_str, arg_vec)
    ELSE IF arg[i] = ","
         THEN IF open
              THEN DeserializeLoop(arg, i + 1, open, Append(curr_str, arg[i]), arg_vec)
              ELSE DeserializeLoop(arg, i + 1, open, <<>>, Append(arg_vec, curr_str))
         ELSE DeserializeLoop(arg, i + 1, open, Append(curr_str, arg[i]), arg_vec)

RECURSIVE StripBrackets(_)
StripBrackets(arg) ==
    IF arg = <<>> THEN <<>>
    ELSE IF Head(arg) \in {"[", "]"} THEN StripBrackets(Tail(arg))
    ELSE <<Head(arg)>> \o StripBrackets(Tail(arg))
\* deserialize_args that splits at every comma
deserialize_args_every_comma(arg) == DeserializeLoop(StripBrackets(arg), 1, FALSE, <<>>, <<>>)

\* LogicLayerQueryOpt::deserialize_args
deserialize_args(arg) == DeserializeLoop(arg, 1, FALSE, <<>>, <<>>)

RECURSIVE DrilldownLoop(_, _, _, _, _, _)
\* the loop over the drilldown tokens; an unresolved token ends the loop (break)
DrilldownLoop(cube, cache, ll_config, tokens, i, acc) ==
    IF i > Len(tokens) THEN acc
    ELSE LET level_value == tokens[i]
             sub == IF ll_config = None THEN None
                    ELSE substitute_drill_value(Unwrap(ll_config), level_value)
             cuts1 == IF sub = None THEN acc.cuts_map
                      ELSE MapOrInsert(acc.cuts_map, Unwrap(sub), level_value)
             level_key == IF sub = None THEN level_value ELSE W(Unwrap(sub))
             level_name == GetByStr(cache.level_map, level_key)
         IN IF level_name = None THEN [acc EXCEPT !.cuts_map = cuts1]
            ELSE IF get_level(cube, Unwrap(level_name)) = None
                 THEN [acc EXCEPT !.cuts_map = cuts1]
                 ELSE DrilldownLoop(cube, cache, ll_config, tokens, i + 1,
                                    [cuts_map |-> cuts1,
                                     drilldowns |-> Append(acc.drilldowns, Unwrap(level_name))])

\* Measure::from_str: a measure is its name, so every string parses
Measure_from_str(s) == [ok |-> TRUE, val |-> s]

RECURSIVE MeasureLoop(_, _, _)
\* the loop over the measure tokens; a token that does not parse ends the loop
MeasureLoop(tokens, i, measures) ==
    IF i > Len(tokens) THEN measures
    ELSE IF ~Measure_from_str(tokens[i]).ok THEN measures
    ELSE MeasureLoop(tokens, i + 1, Append(measures, Measure_from_str(tokens[i]).val))

RECURSIVE PropertyLoop(_, _, _, _)
\* the loop over the property tokens; an unknown property ends the loop (break)
PropertyLoop(cache, tokens, i, properties) ==
    IF i > Len(tokens) THEN properties
    ELSE LET property == GetByStr(cache.property_map, tokens[i]) IN
         IF property = None THEN properties
         ELSE PropertyLoop(cache, tokens, i + 1, Append(properties, Unwrap(property)))

\* the drilldowns, measures and properties of the request, parsed; the drilldown
\* loop may add a cut for a named set
ParseRequestArgs(req, cuts_map, cube, cache, ll_config) ==
    LET d == IF req.drilldowns = None
             THEN [cuts_map |-> cuts_map, drilldowns |-> <<>>]
             ELSE DrilldownLoop(cube, cache, ll_config,
                                deserialize_args(Unwrap(req.drilldowns)), 1,
                                [cuts_map |-> cuts_map, drilldowns |-> <<>>])
    IN [cuts_map |-> d.cuts_map,
        drilldowns |-> d.drilldowns,
        measures |-> IF req.measures = None THEN <<>>
                     ELSE MeasureLoop(deserialize_args(Unwrap(req.measures)), 1, <<>>),
        properties |-> IF req.properties = None THEN <<>>
                       ELSE PropertyLoop(cache, deserialize_args(Unwrap(req.properties)),
                                         1, <<>>),
        parents |-> req.parents]

\* partial_cartesian pairing every prefix with the first element only
partial_cartesian_first_only(a, b) ==
    Concat([i \in 1..Len(a) |-> [j \in 1..(IF Len(b) > 0 THEN 1 ELSE 0) |-> Append(a[i], b[j])]])

\* partial_cartesian
partial_cartesian(a, b) ==
    Concat([i \in 1..Len(a) |-> [j \in 1..Len(b) |-> Append(a[i], b[j])]])

RECURSIVE CartesianFold(_, _, _)
CartesianFold(vec, rest, i) ==
    IF i > Len(rest) THEN vec
    ELSE CartesianFold(partial_cartesian(vec, rest[i]), rest, i + 1)

\* cartesian_product
cartesian_product(lists) ==
    IF lists = <<>> THEN <<>>
    ELSE CartesianFold([i \in 1..Len(lists[1]) |-> <<lists[1][i]>>], Tail(lists), 1)

\* the cuts of one dimension, in the order its levels are iterated
InnerCuts(level_cuts_map, level_order) ==
    [i \in 1..Len(level_order) |->
        [level_name |-> level_order[i], members |-> level_cuts_map[level_order[i]]]]

\* the cuts grouped by dimension, in the order the dimensions are iterated
DimensionCuts(dcm, dim_order, level_order) ==
    [i \in 1..Len(dim_order) |-> InnerCuts(dcm[dim_order[i]], level_order[dim_order[i]])]

\* the levels of the dimensions with more than one level under cut
AddedDrilldowns(dcm, dim_order, level_order) ==
    Concat([i \in 1..Len(dim_order) |->
               IF Len(level_order[dim_order[i]]) > 1 THEN level_order[dim_order[i]]
               ELSE <<>>])

\* AddDrills adding no drilldown for the cuts
AddDrills_none(cube, added_drilldowns, cut_combination, i, drills) == drills

RECURSIVE AddDrills(_, _, _, _, _)
\* `for cut in cut_combination`: the drilldowns one query gets
AddDrills(cube, added_drilldowns, cut_combination, i, drills) ==
    IF i > Len(cut_combination) THEN drills
    ELSE IF Contains(added_drilldowns, cut_combination[i].level_name)
         THEN LET pushed == Append(drills, cut_combination[i].level_name) IN
              IF get_level(cube, cut_combination[i].level_name) = None THEN pushed
              ELSE AddDrills(cube, added_drilldowns, cut_combination, i + 1, pushed)
         ELSE AddDrills(cube, added_drilldowns, cut_combination, i + 1, drills)

\* the internal queries, from the parsed arguments and the resolved cuts
BuildQueries(cube, a, dcm, dim_order, level_order) ==
    LET dimension_cuts == DimensionCuts(dcm, dim_order, level_order)
        added_drilldowns == AddedDrilldowns(dcm, dim_order, level_order)
        cut_combinations == cartesian_product(dimension_cuts)
    IN IF Len(cut_combinations) = 0
       THEN <<[drilldowns |-> a.drilldowns, cuts |-> <<>>, measures |-> a.measures,
               properties |-> a.properties, parents |-> a.parents]>>
       ELSE [i \in 1..Len(cut_combinations) |->
                [drilldowns |-> AddDrills(cube, added_drilldowns, cut_combinations[i], 1,
                                          a.drilldowns),
                 cuts |-> cut_combinations[i],
                 measures |-> a.measures,
                 properties |-> a.properties,
                 parents |-> a.parents]]

(***************************************************************************)
(* The binder: Schema::sql_query and its helpers (tesseract-core lib.rs).  *)
(***************************************************************************)
\* a second cube, whose only dimension has no foreign key
PageDim ==
    [name |-> "Page", is_shared |-> FALSE, foreign_key |-> None,
     dim_type |-> "Standard", foreign_key_type |-> None,
     hierarchies |-> <<[name |-> "Page", table |-> None, inline_table |-> None,
                        primary_key |-> "page_id",
                        levels |-> <<[name |-> "Page", key_column |-> "page_id",
                                      name_column |-> None, properties |-> None]>>]>>]
VisitsCube ==
    [name |-> "Visits",
     table |-> [name |-> "visits", primary_key |-> None],
     dimensions |-> <<PageDim>>,
     measures |-> <<[name |-> "Hits", column |-> "hits", aggregator |-> "count"]>>]

TheSchema == [cubes |-> <<SalesCube, VisitsCube>>]

Ok(v) == [ok |-> TRUE, val |-> v, err |-> ""]
Err(why) == [ok |-> FALSE, val |-> <<>>, err |-> why]

\* iter().find(|x| x.name == name): the index, 0 when there is none
FindByName(seq, name) == FirstIndex([i \in 1..Len(seq) |-> seq[i].name = name])

\* Schema::cube_table
cube_table(schema, cube_name) ==
    LET c == FindByName(schema.cubes, cube_name) IN
    IF c = 0 THEN None
    ELSE Some([name |-> schema.cubes[c].table.name,
               primary_key |-> schema.cubes[c].table.primary_key])

RECURSIVE CutColsLoop(_, _, _, _)
\* `for cut in cuts` of cube_cut_cols
CutColsLoop(cube, cuts, i, res) ==
    IF i > Len(cuts) THEN Ok(res)
    ELSE LET cut == cuts[i]
             di == FindByName(cube.dimensions, cut.level_name.dimension)
         IN IF di = 0 THEN Err("could not find dimension for cut")
            ELSE LET dim == cube.dimensions[di]
                     hi == FindByName(dim.hierarchies, cut.level_name.hierarchy)
                 IN IF hi = 0 THEN Err("could not find hierarchy for cut")
                    ELSE LET hier == dim.hierarchies[hi]
                             li == FindByName(hier.levels, cut.level_name.level)
                         IN IF li = 0 THEN Err("could not find level for cut")
                            ELSE IF dim.foreign_key = None THEN Err("No foreign key")
                            ELSE CutColsLoop(cube, cuts, i + 1, Append(res,
                                    [table |-> IF hier.table = None THEN cube.table
                                               ELSE Unwrap(hier.table),
                                     primary_key |-> hier.primary_key,
                                     foreign_key |-> Unwrap(dim.foreign_key),
                                     column |-> hier.levels[li].key_column,
                                     members |-> cut.members,
                                     member_type |-> IF dim.foreign_key_type = None
                                                     THEN "NonText"
                                                     ELSE Unwrap(dim.foreign_key_type)]))

\* Schema::cube_cut_cols
cube_cut_cols(schema, cube_name, cuts) ==
    LET c == FindByName(schema.cubes, cube_name) IN
    IF c = 0 THEN Err("Could not find cube")
    ELSE CutColsLoop(schema.cubes[c], cuts, 1, <<>>)

\* the schema property a request property names, in the levels of the hierarchy
\* of the drill: None when the level or the property is not there
SchemaProperty(levels, p) ==
    LET li == FindByName(levels, p.level_name.level) IN
    IF li = 0 THEN None
    ELSE IF levels[li].properties = None THEN None
    ELSE LET pi == FindByName(Unwrap(levels[li].properties), p.property) IN
         IF pi = 0 THEN None ELSE Some(Unwrap(levels[li].properties)[pi])

RECURSIVE PropertyColumns(_, _, _, _, _)
\* the properties of the request that belong to the drill, each bound to the
\* field of its schema property; the first that cannot be bound is the error
PropertyColumns(levels, drill, properties, i, field) ==
    IF i > Len(properties) THEN Ok(<<>>)
    ELSE IF properties[i].level_name # drill
         THEN PropertyColumns(levels, drill, properties, i + 1, field)
         ELSE LET sp == SchemaProperty(levels, properties[i]) IN
              IF sp = None THEN Err("cannot find property")
              ELSE LET rest == PropertyColumns(levels, drill, properties, i + 1, field) IN
                   IF ~rest.ok THEN rest
                   ELSE Ok(<<Unwrap(sp)[field]>> \o rest.val)

LevelColumn(level) == [key_column |-> level.key_column, name_column |-> level.name_column]

\* the level columns under parents with the range 0..level_idx in place of
\* 0..=level_idx
LevelColumns_exclusive(levels, level_idx, parents) ==
    IF parents THEN [i \in 1..(level_idx - 1) |-> LevelColumn(levels[i])]
    ELSE <<LevelColumn(levels[level_idx])>>

\* the level columns of a drill whose level is at place level_idx
LevelColumns(levels, level_idx, parents) ==
    IF parents THEN [i \in 1..level_idx |-> LevelColumn(levels[i])]
    ELSE <<LevelColumn(levels[level_idx])>>

RECURSIVE DrillColsLoop(_, _, _, _, _, _)
\* `for drill in drills` of cube_drill_cols
DrillColsLoop(cube, drills, properties, parents, i, res) ==
    IF i > Len(drills) THEN Ok(res)
    ELSE LET drill == drills[i]
             di == FindByName(cube.dimensions, drill.dimension)
         IN IF di = 0 THEN Err("could not find dimension for drill")
            ELSE LET dim == cube.dimensions[di]
                     hi == FindByName(dim.hierarchies, drill.hierarchy)
                 IN IF hi = 0 THEN Err("could not find hierarchy for drill")
                    ELSE LET hier == dim.hierarchies[hi]
                             levels == hier.levels
                             property_columns ==
                                 PropertyColumns(levels, drill, properties, 1, "column")
                             level_idx == FindByName(levels, drill.level)
                         IN IF ~property_columns.ok THEN Err(property_columns.err)
                            ELSE IF dim.foreign_key = None THEN Err("No foreign key")
                            ELSE IF level_idx = 0 THEN Err("could not find hierarchy for drill")
                            ELSE DrillColsLoop(cube, drills, properties, parents, i + 1,
                                    Append(res,
                                      [table |-> IF hier.table = None THEN cube.table
                                                 ELSE Unwrap(hier.table),
                                       primary_key |-> hier.primary_key,
                                       foreign_key |-> Unwrap(dim.foreign_key),
                                       level_columns |->
                                           LevelColumns(levels, level_idx, parents),
                                       property_columns |-> property_columns.val]))

\* Schema::cube_drill_cols
cube_drill_cols(schema, cube_name, drills, properties, parents) ==
    LET c == FindByName(schema.cubes, cube_name) IN
    IF c = 0 THEN Err("Could not find cube")
    ELSE DrillColsLoop(schema.cubes[c], drills, properties, parents, 1, <<>>)

RECURSIVE MeaColsLoop(_, _, _, _)
\* `for measure in meas` of cube_mea_cols
MeaColsLoop(cube, meas, i, res) ==
    IF i > Len(meas) THEN Ok(res)
    ELSE LET mi == FirstIndex([k \in 1..Len(cube.measures) |->
                                  W(cube.measures[k].name) = meas[i]]) IN
         IF mi = 0 THEN Err("could not find dimension for drill")
         ELSE MeaColsLoop(cube, meas, i + 1,
                          Append(res, [column |-> cube.measures[mi].column,
                                       aggregator |-> cube.measures[mi].aggregator]))

\* Schema::cube_mea_cols
cube_mea_cols(schema, cube_name, meas) ==
    LET c == FindByName(schema.cubes, cube_name) IN
    IF c = 0 THEN Err("Could not find cube")
    ELSE MeaColsLoop(schema.cubes[c], meas, 1, <<>>)

\* the headers of one level: "<name> ID" first when it has a name column
LevelHeaders(level) ==
    IF level.name_column # None THEN <<<<level.name, " ID">>, W(level.name)>>
    ELSE <<W(level.name)>>

\* the level headers with the ID header given to the drilled level only
DrillLevelHeaders_id_of_drilled_level_only(levels, level_idx, parents) ==
    IF parents
    THEN Concat([i \in 1..level_idx |->
                    IF i = level_idx THEN LevelHeaders(levels[i]) ELSE <<W(levels[i].name)>>])
    ELSE LevelHeaders(levels[level_idx])

\* the level headers of a drill whose level is at place level_idx
DrillLevelHeaders(levels, level_idx, parents) ==
    IF parents THEN Concat([i \in 1..level_idx |-> LevelHeaders(levels[i])])
    ELSE LevelHeaders(levels[level_idx])

RECURSIVE DrillHeadersLoop(_, _, _, _, _, _)
\* `for drill in drills` of cube_drill_headers
DrillHeadersLoop(cube, drills, properties, parents, i, level_headers) ==
    IF i > Len(drills) THEN Ok(level_headers)
    ELSE LET drill == drills[i]
             di == FindByName(cube.dimensions, drill.dimension)
         IN IF di = 0 THEN Err("could not find dimension for drill")
            ELSE LET dim == cube.dimensions[di]
                     hi == FindByName(dim.hierarchies, drill.hierarchy)
                 IN IF hi = 0 THEN Err("could not find hierarchy for drill")
                    ELSE LET levels == dim.hierarchies[hi].levels
                             level_idx == FindByName(levels, drill.level)
                             property_columns ==
                                 PropertyColumns(levels, drill, properties, 1, "name")
                         IN IF level_idx = 0 THEN Err("could not find hierarchy for drill")
                            ELSE IF ~property_columns.ok THEN Err(property_columns.err)
                            ELSE DrillHeadersLoop(cube, drills, properties, parents, i + 1,
                                    level_headers
                                    \o DrillLevelHeaders(levels, level_idx, parents)
                                    \o [k \in 1..Len(property_columns.val) |->
                                           W(property_columns.val[k])])

\* Schema::cube_drill_headers
cube_drill_headers(schema, cube_name, drills, properties, parents) ==
    LET c == FindByName(schema.cubes, cube_name) IN
    IF c = 0 THEN Err("Could not find cube")
    ELSE DrillHeadersLoop(schema.cubes[c], drills, properties, parents, 1, <<>>)

RECURSIVE MeaHeadersLoop(_, _, _, _)
\* `for measure in meas` of cube_mea_headers
MeaHeadersLoop(cube, meas, i, res) ==
    IF i > Len(meas) THEN Ok(res)
    ELSE LET mi == FirstIndex([k \in 1..Len(cube.measures) |->
                                  W(cube.measures[k].name) = meas[i]]) IN
         IF mi = 0 THEN Err("could not find measure in cube")
         ELSE MeaHeadersLoop(cube, meas, i + 1, Append(res, W(cube.measures[mi].name)))

\* Schema::cube_mea_headers
cube_mea_headers(schema, cube_name, meas) ==
    LET c == FindByName(schema.cubes, cube_name) IN
    IF c = 0 THEN Err("Could not find cube")
    ELSE MeaHeadersLoop(schema.cubes[c], meas, 1, <<>>)

\* what sql_query returns: Ok((sql, headers)) or Err; the SQL is kept as what the
\* generator is given
SqlOk(table, cut_cols, drill_cols, mea_cols, headers) ==
    [ok |-> TRUE, err |-> "", detail |-> "",
     sql |-> Some([table |-> table, cut_cols |-> cut_cols, drill_cols |-> drill_cols,
                   mea_cols |-> mea_cols]),
     headers |-> headers]
SqlErr(why, detail) ==
    [ok |-> FALSE, err |-> why, detail |-> detail, sql |-> None, headers |-> <<>>]

\* sql_query, lines 72-118: the names are bound and the generator is fed
BindNames(schema, cube, query) ==
    LET table == cube_table(schema, cube)
        cut_cols == cube_cut_cols(schema, cube, query.cuts)
        drill_cols == cube_drill_cols(schema, cube, query.drilldowns, query.properties,
                                      query.parents)
        mea_cols == cube_mea_cols(schema, cube, query.measures)
        drill_headers == cube_drill_headers(schema, cube, query.drilldowns,
                                            query.properties, query.parents)
        mea_headers == cube_mea_headers(schema, cube, query.measures)
    IN IF table = None THEN SqlErr("No table found for cube", "")
       ELSE IF ~cut_cols.ok THEN SqlErr("Error getting cut cols", cut_cols.err)
       ELSE IF ~drill_cols.ok THEN SqlErr("Error getting drill cols", drill_cols.err)
       ELSE IF ~mea_cols.ok THEN SqlErr("Error getting mea cols", mea_cols.err)
       ELSE IF ~drill_headers.ok THEN SqlErr("Error getting drill heaers", drill_headers.err)
       ELSE IF ~mea_headers.ok THEN SqlErr("Error getting mea cols", mea_headers.err)
       ELSE SqlOk(Unwrap(table), cut_cols.val, drill_cols.val, mea_cols.val,
                  drill_headers.val \o mea_headers.val)

\* a property of the query whose level is not among the drilldowns
HasUndrilledProperty(query) ==
    \E i \in 1..Len(query.properties) :
        ~\E j \in 1..Len(query.drilldowns) :
            query.drilldowns[j] = query.properties[i].level_name

\* sql_query with the table looked up before the checks of the query
sql_query_table_first(schema, cube, query) ==
    IF cube_table(schema, cube) = None THEN SqlErr("No table found for cube", "")
    ELSE IF query.measures = <<>> THEN SqlErr("No measure found", "")
    ELSE IF query.drilldowns = <<>> /\ query.cuts = <<>>
         THEN SqlErr("Either a drilldown or cut is required", "")
    ELSE IF HasUndrilledProperty(query)
         THEN SqlErr("Property has no matching drilldown", "")
    ELSE BindNames(schema, cube, query)

\* Schema::sql_query
sql_query(schema, cube, query) ==
    IF query.measures = <<>> THEN SqlErr("No measure found", "")
    ELSE IF query.drilldowns = <<>> /\ query.cuts = <<>>
         THEN SqlErr("Either a drilldown or cut is required", "")
    ELSE IF HasUndrilledProperty(query)
         THEN SqlErr("Property has no matching drilldown", "")
    ELSE BindNames(schema, cube, query)

(***************************************************************************)
(* The requests the model generates.                                       *)
(***************************************************************************)
Atom(element, op) == element \o <<":", op>>

BaseRequest == [cuts |-> EmptyMap, time |-> None, drilldowns |-> Some(W("Category")),
                measures |-> Some(W("Revenue")), properties |-> None, parents |-> FALSE]

\* fan-out requests: up to MaxCutAtoms cut values over three cut keys
FanOutKeys == {"Geography", "Product", "County"}
FanOutAtoms == {W("s2"), W("i2"), Atom(W("s1"), "parents"), Atom(W("i2"), "parents")}
RECURSIVE CutMaps(_)
CutMaps(n) ==
    IF n = 0 THEN {EmptyMap}
    ELSE CutMaps(n - 1) \cup
         {MapInsert(m, k, IF k \in DOMAIN m THEN m[k] \o <<",">> \o a ELSE a) :
             m \in CutMaps(n - 1), k \in FanOutKeys, a \in FanOutAtoms}
FanOutRequests == {[BaseRequest EXCEPT !.cuts = m] : m \in CutMaps(MaxCutAtoms)}

\* operator requests: one cut key, one cut value
OperatorKeys == {"Geography", "Product", "Time", "Nation", "State", "County",
                 "Category", "Item", "SKU", "Year", "Bogus"}
OperatorElements == {W("c1"), W("s1"), W("s2"), W("n1"), W("i2"), W("k1"), W("9"),
                     W("zz"), <<>>}
OperatorAtoms ==
    OperatorElements
    \cup {Atom(e, op) : e \in OperatorElements,
                        op \in {"children", "parents", "neighbors", "siblings"}}
    \cup {Atom(Atom(W("c1"), "children"), "parents")}
OperatorRequests ==
    {[BaseRequest EXCEPT !.cuts = [x \in {k} |-> a]] : k \in OperatorKeys, a \in OperatorAtoms}

\* time requests
TimeToken(precision, value) == <<precision, ".">> \o value
TimeValues == {W("latest"), W("oldest"), W("9"), <<"0", "9">>, <<"+", "9">>, W("7"),
               <<"1", "0">>, <<"-", "9">>, W("x"), <<>>, W("+"),
               U32MaxDigits, <<"4", "2", "9", "4", "9", "6", "7", "2", "9", "6">>}
TimeTokens == {TimeToken(p, v) : p \in {"year", "month", "day", "decade"}, v \in TimeValues}
TimeStrings ==
    TimeTokens
    \cup {W("year"), <<"year", ".", "9", ".", "9">>, <<>>}
    \cup {a \o <<",">> \o b : a \in {TimeToken("year", W("latest"))},
                             b \in {TimeToken("year", W("oldest")),
                                    TimeToken("month", W("latest")),
                                    TimeToken("year", W("x"))}}
TimeRequests ==
    {[BaseRequest EXCEPT !.time = Some(t), !.cuts = m] :
        t \in TimeStrings,
        m \in {EmptyMap, [x \in {"Year"} |-> W("8")], [x \in {"Geography"} |-> W("c1")]}}

\* drilldown requests
DrillTokens == {"County", "State", "Item", "SKU", "Bogus", "cheap"}
RECURSIVE DrillStrings(_)
DrillStrings(n) ==
    IF n = 0 THEN {<<>>}
    ELSE DrillStrings(n - 1) \cup
         {IF s = <<>> THEN <<t>> ELSE s \o <<",", t>> : s \in DrillStrings(n - 1),
                                                       t \in DrillTokens}
DrillArgs ==
    DrillStrings(MaxDrillTokens)
    \cup {<<"[", "County", "]">>, <<"[", "County", "]", ",", "State">>,
          <<"[", "County", ",", "State", "]">>, <<"County", ",">>, <<",", "County">>}
DrillRequests ==
    {[BaseRequest EXCEPT !.drilldowns = Some(d), !.cuts = m, !.parents = par] :
        d \in DrillArgs, par \in BOOLEAN,
        m \in {EmptyMap, [x \in {"Geography"} |-> <<"c1", ",", "s2">>]}}
    \cup {[BaseRequest EXCEPT !.drilldowns = d, !.properties = ps, !.measures = ms] :
            d \in {None, Some(W("County"))},
            ps \in {None, Some(W("Area")), Some(<<"Bogus", ",", "Area">>),
                    Some(<<"Price", ",", "Area">>)},
            ms \in {None, Some(<<"Revenue", ",", "Quantity">>)}}

\* requests that cut one dimension through its name and through a level name
TwoKeyRequests ==
    {[BaseRequest EXCEPT !.cuts = [k \in {"Geography", lk} |->
                                      IF k = "Geography" THEN dv ELSE lv]] :
        lk \in {"County", "State"}, dv \in {W("c1"), W("s1")},
        lv \in {W("c2"), Atom(W("zz"), "parents")}}

Requests ==
    FanOutRequests \cup OperatorRequests \cup TimeRequests \cup DrillRequests
    \cup TwoKeyRequests

\* the queries given to the binder
BindLevels ==
    {LevelNameOf("Geography", "Geography", "Nation"),
     LevelNameOf("Geography", "Geography", "State"),
     LevelNameOf("Geography", "Geography", "County"),
     LevelNameOf("Product", "Product", "Category"),
     LevelNameOf("Product", "Product", "Item"),
     LevelNameOf("Time", "Time", "Year"),
     LevelNameOf("Bogus", "Geography", "County"),
     LevelNameOf("Geography", "Bogus", "County"),
     LevelNameOf("Geography", "Geography", "Bogus")}
RECURSIVE BindDrills(_)
BindDrills(n) ==
    IF n = 0 THEN {<<>>}
    ELSE BindDrills(n - 1) \cup {Append(ds, l) : ds \in BindDrills(n - 1), l \in BindLevels}
PropertyOf(l, p) == [level_name |-> l, property |-> p]
AreaOfCounty == PropertyOf(LevelNameOf("Geography", "Geography", "County"), "Area")
PriceOfItem == PropertyOf(LevelNameOf("Product", "Product", "Item"), "Price")
ColorOfItem == PropertyOf(LevelNameOf("Product", "Product", "Item"), "Color")
BindProperties ==
    {<<>>, <<AreaOfCounty>>, <<PriceOfItem, ColorOfItem>>, <<ColorOfItem, PriceOfItem>>,
     <<PriceOfItem, AreaOfCounty>>,
     <<PropertyOf(LevelNameOf("Geography", "Geography", "County"), "Bogus")>>,
     <<PropertyOf(LevelNameOf("Geography", "Geography", "State"), "Area")>>}
BindCuts ==
    {<<>>,
     <<[level_name |-> LevelNameOf("Geography", "Geography", "County"),
        members |-> <<W("c1")>>]>>,
     <<[level_name |-> LevelNameOf("Geography", "Geography", "Bogus"),
        members |-> <<W("c1")>>]>>,
     <<[level_name |-> LevelNameOf("Page", "Page", "Page"),
        members |-> <<W("c1")>>]>>}
BindQuery(ds, cs, ms, ps, par) ==
    [drilldowns |-> ds, cuts |-> cs, measures |-> ms, properties |-> ps, parents |-> par]
\* drills of every shape on the cube Sales
DrillQueries ==
    {[cube |-> "Sales", query |-> BindQuery(ds, <<>>, ms, ps, par)] :
        ds \in BindDrills(MaxBindDrills), ps \in BindProperties, par \in BOOLEAN,
        ms \in {<<W("Revenue")>>, <<W("Quantity"), W("Revenue")>>}}
\* queries that miss a measure, a drilldown and a cut, or the drill of a property,
\* on known and unknown cubes
CheckQueries ==
    {[cube |-> c, query |-> BindQuery(ds, cs, ms, ps, FALSE)] :
        c \in {"Sales", "Visits", "Bogus"},
        ds \in {<<>>, <<LevelNameOf("Geography", "Geography", "County")>>,
                <<LevelNameOf("Page", "Page", "Page")>>,
                <<LevelNameOf("Geography", "Geography", "Bogus")>>},
        cs \in BindCuts, ps \in BindProperties,
        ms \in {<<>>, <<W("Revenue")>>, <<W("Hits")>>, <<W("Bogus")>>}}
BindRequests == DrillQueries \cup CheckQueries

(***************************************************************************)
(* The state.                                                              *)
(***************************************************************************)
VARIABLES
    ll_config,       \* AppState.logic_layer_config
    geoservice_url,  \* AppState.env_vars.geoservice_url
    cube_cache,      \* the CubeCache of the cube, built by populate_cache
    schema_lock,     \* the RwLock of AppState.schema: its policy, a writer waiting
    pc,              \* where generate_ts_queries stands
    req,             \* the LogicLayerQueryOpt of the request
    cuts_map,        \* generate_ts_queries: cuts_map
    args,            \* the parsed drilldowns, measures, properties, parents
    resolved,        \* what resolve_cuts returned
    queries,         \* the internal queries emitted
    bind_pc,         \* where sql_query stands
    bind_req,        \* the cube name and the Query given to sql_query
    bind_result,     \* what sql_query returned
    debug,           \* AppState.debug
    loaded,          \* the load each of AppState.schema, logic_layer_config, cache holds
    schema_guards,   \* read guards on AppState.schema held by the request
    srv_pc,          \* where logic_layer_aggregation stands
    seen,            \* the load of each part of AppState the request has read
    sql_strings,     \* logic_layer_aggregation: sql_strings
    futs,            \* the slots of join_all: one per exec_sql future
    completed,       \* the exec_sql futures in the order they completed
    failure,         \* the error the joined future failed with
    response,        \* the HttpResponse of the request
    call             \* a function of the cache or the handler, called on its own

vars == <<ll_config, geoservice_url, cube_cache, schema_lock, pc, req, cuts_map, args, resolved, queries,
          bind_pc, bind_req, bind_result,
          debug, loaded, schema_guards, srv_pc, seen, sql_strings, futs, completed, failure,
          response, call>>
app == <<ll_config, geoservice_url, cube_cache, schema_lock>>
\* the lock with no writer
NoWriter == [policy |-> "prefer_readers", writer_waiting |-> FALSE]
logic == <<pc, req, cuts_map, args, resolved, queries>>
binder == <<bind_pc, bind_req, bind_result>>
server == <<debug, loaded, schema_guards, srv_pc, seen, sql_strings, futs, completed, failure,
            response>>

NoArgs == [cuts_map |-> EmptyMap, drilldowns |-> <<>>, measures |-> <<>>,
           properties |-> <<>>, parents |-> FALSE]
NoResolved == [dcm |-> EmptyMap, header_map |-> EmptyMap, level_matches |-> <<>>,
               err |-> "", geo_calls |-> 0]

\* the back-end as the probe of a time level may have seen it: as it is, or
\* before the fact table had any row
NoBindRequest == [cube |-> "", query |-> BindQuery(<<>>, <<>>, <<>>, <<>>, FALSE)]
NoBindResult == SqlErr("", "")

ProbeDbs == {Tables, [Tables EXCEPT !.sales = <<>>]}

NoLoad == [schema |-> 0, config |-> 0, cache |-> 0, bind |-> 0]
NoResponse == [status |-> 0, body |-> <<>>]
NoCall == [fn |-> "", arg |-> <<>>, ret |-> <<>>]

\* no aggregation request is being handled
ServerIdle ==
    /\ debug = FALSE
    /\ loaded = [schema |-> 1, config |-> 1, cache |-> 1]
    /\ schema_guards = 0
    /\ srv_pc = "idle"
    /\ seen = NoLoad
    /\ sql_strings = <<>>
    /\ futs = <<>>
    /\ completed = <<>>
    /\ failure = ""
    /\ response = NoResponse

Init ==
    /\ ll_config \in {None, Some(ConfigA)}
    /\ geoservice_url \in {None, Some("http://geoservice")}
    /\ schema_lock = NoWriter
    /\ \E probe_db \in ProbeDbs : cube_cache = populate_cache(SalesCube, ll_config, probe_db)
    /\ pc = "idle"
    /\ req = BaseRequest
    /\ cuts_map = EmptyMap
    /\ args = NoArgs
    /\ resolved = NoResolved
    /\ queries = <<>>
    /\ bind_pc = "idle"
    /\ bind_req = NoBindRequest
    /\ bind_result = NoBindResult
    /\ ServerIdle
    /\ call = NoCall

\* a request arrives
NewRequest ==
    /\ pc = "idle"
    /\ \E r \in Requests : req' = r
    /\ pc' = "request"
    /\ UNCHANGED <<app, cuts_map, args, resolved, queries, binder, server, call>>

\* generate_ts_queries, line 364: clean_cuts_map(...)?
CleanCutsMap ==
    /\ pc = "request"
    /\ LET c == clean_cuts_map(req, cube_cache, ll_config) IN
       /\ cuts_map' = IF c.ok THEN c.cuts ELSE cuts_map
       /\ pc' = IF c.ok THEN "cleaned" ELSE "error"
    /\ UNCHANGED <<app, req, args, resolved, queries, binder, server, call>>

\* generate_ts_queries, lines 366-448: the arguments are parsed
ParseArgs ==
    /\ pc = "cleaned"
    /\ args' = ParseRequestArgs(req, cuts_map, SalesCube, cube_cache, ll_config)
    /\ cuts_map' = args'.cuts_map
    /\ pc' = "parsed"
    /\ UNCHANGED <<app, req, resolved, queries, binder, server, call>>

\* generate_ts_queries, line 582: resolve_cuts(...)?
ResolveCuts ==
    /\ pc = "parsed"
    /\ \E key_order \in Perms(DOMAIN cuts_map), geo \in {"up", "down"} :
          resolved' = resolve_cuts(cuts_map, SalesCube, cube_cache, geoservice_url,
                                   geo, key_order)
    /\ pc' = IF resolved'.err = "" THEN "resolved" ELSE "error"
    /\ UNCHANGED <<app, req, cuts_map, args, queries, binder, server, call>>

\* generate_ts_queries, lines 586-690: the queries are built and returned
Expand ==
    /\ pc = "resolved"
    /\ \E dim_order \in Perms(DOMAIN resolved.dcm) :
       \E level_order \in [DOMAIN resolved.dcm -> UNION {Perms(DOMAIN resolved.dcm[d]) :
                                                          d \in DOMAIN resolved.dcm}] :
          /\ \A d \in DOMAIN resolved.dcm : level_order[d] \in Perms(DOMAIN resolved.dcm[d])
          /\ queries' = BuildQueries(SalesCube, args, resolved.dcm, dim_order, level_order)
    /\ pc' = "done"
    /\ UNCHANGED <<app, req, cuts_map, args, resolved, binder, server, call>>

\* the handler is through with the request
Return ==
    /\ pc \in {"done", "error"}
    /\ pc' = "idle"
    /\ req' = BaseRequest
    /\ cuts_map' = EmptyMap
    /\ args' = NoArgs
    /\ resolved' = NoResolved
    /\ queries' = <<>>
    /\ UNCHANGED <<app, binder, server, call>>

Next == NewRequest \/ CleanCutsMap \/ ParseArgs \/ ResolveCuts \/ Expand \/ Return

Spec == Init /\ [][Next]_vars

(***************************************************************************)
(* The binder on its own: sql_query is given queries of every shape.       *)
(***************************************************************************)
InitBinder ==
    /\ ll_config = None
    /\ geoservice_url = None
    /\ schema_lock = NoWriter
    /\ cube_cache = populate_cache(SalesCube, None, Tables)
    /\ pc = "idle"
    /\ req = BaseRequest
    /\ cuts_map = EmptyMap
    /\ args = NoArgs
    /\ resolved = NoResolved
    /\ queries = <<>>
    /\ bind_pc = "idle"
    /\ bind_req = NoBindRequest
    /\ bind_result = NoBindResult
    /\ ServerIdle
    /\ call = NoCall

\* a query is handed to the binder
NewQuery ==
    /\ bind_pc = "idle"
    /\ \E r \in BindRequests : bind_req' = r
    /\ bind_pc' = "query"
    /\ UNCHANGED <<app, logic, bind_result, server, call>>

\* Schema::sql_query
SqlQuery ==
    /\ bind_pc = "query"
    /\ bind_result' = sql_query(TheSchema, bind_req.cube, bind_req.query)
    /\ bind_pc' = IF bind_result'.ok THEN "ok" ELSE "error"
    /\ UNCHANGED <<app, logic, bind_req, server, call>>

\* the caller is through with the result
BindReturn ==
    /\ bind_pc \in {"ok", "error"}
    /\ bind_pc' = "idle"
    /\ bind_req' = NoBindRequest
    /\ bind_result' = NoBindResult
    /\ UNCHANGED <<app, logic, server, call>>

NextBinder == NewQuery \/ SqlQuery \/ BindReturn

SpecBinder == InitBinder /\ [][NextBinder]_vars

(***************************************************************************)
(* The handler: logic_layer_aggregation (aggregate.rs), from the reads of  *)
(* AppState to the response.                                               *)
(***************************************************************************)
MaxQueries == 2
MaxRows == 2
MaxLoads == 2

\* the internal queries generate_ts_queries may hand to the handler
ServeQuery ==
    {BindQuery(<<LevelNameOf("Geography", "Geography", "State")>>, <<>>, <<W("Revenue")>>,
               <<>>, FALSE),
     BindQuery(<<LevelNameOf("Geography", "Geography", "County")>>, <<>>, <<W("Revenue")>>,
               <<>>, FALSE),
     BindQuery(<<LevelNameOf("Geography", "Geography", "Bogus")>>, <<>>, <<W("Revenue")>>,
               <<>>, FALSE)}
RECURSIVE TsQueries(_)
TsQueries(n) ==
    IF n = 0 THEN {<<>>}
    ELSE TsQueries(n - 1) \cup
         {Append(qs, q) : qs \in {x \in TsQueries(n - 1) : Len(x) = n - 1}, q \in ServeQuery}

\* ColumnData: the variants the handler rebuilds from strings, Text, and a
\* nullable variant
NumericTypes == {"Int8", "Int16", "Int32", "Int64", "UInt8", "UInt16", "UInt32", "UInt64",
                 "Float32", "Float64"}
ColumnTypes == NumericTypes \cup {"Text", "NullableInt32"}
\* the column types of the dataframe one exec_sql may return
DfSchemas == {<<"Int32", "Float64">>, <<"Text", "Float64">>, <<"NullableInt32", "Float64">>,
              <<"Int32", "Int64">>}

\* the value in row j, column k of the dataframe of query i
CellValue(i, j, k) == (i * (MaxRows + 1) + j) * 2 + (k - 1)
MaxCell == CellValue(MaxQueries + 1, MaxRows + 1, 2)
Cell(type, v) == IF type = "Text" THEN ToString(v)
                 ELSE IF type \in NumericTypes THEN v
                 ELSE Some(v)
ReplyColumn(type, i, rows, k) ==
    [name |-> "", column_data |-> [type |-> type,
                                   data |-> [j \in 1..rows |-> Cell(type, CellValue(i, j, k))]]]
DataFrameOf(i, schema, rows) ==
    [columns |-> [k \in 1..Len(schema) |-> ReplyColumn(schema[k], i, rows, k)]]

\* what the back-end may answer to the sql of query i
ErrTexts == {"connection refused", "no table sales_2019"}
Replies(i) ==
    {Ok(DataFrameOf(i, s, r)) : s \in DfSchemas, r \in 0..MaxRows}
    \cup {Err(e) : e \in ErrTexts}

\* Column::stringify_column_data
stringify_column_data(c) ==
    [j \in 1..Len(c.column_data.data) |->
        IF c.column_data.type = "Text" THEN c.column_data.data[j]
        ELSE IF c.column_data.type \in NumericTypes THEN ToString(c.column_data.data[j])
        ELSE IF c.column_data.data[j] = None THEN ""
        ELSE ToString(Unwrap(c.column_data.data[j]))]

\* str::parse of a number
ParseNumber(x) == CHOOSE n \in 0..MaxCell : ToString(n) = x

is_same_columndata_type(a, b) == a.type = b.type

\* join_all with the dataframes taken in the order the futures completed
join_all_completion_order(slots, order) == [j \in 1..Len(order) |-> Unwrap(slots[order[j]])]

\* join_all: the items of the futures, in the order of the futures
join_all(slots, order) == [i \in 1..Len(slots) |-> Unwrap(slots[i])]

RECURSIVE ColData(_, _, _, _)
\* lines 265-269: the rows of column col_i of every dataframe, one after another
ColData(dfs, col_i, d, col_data) ==
    IF d > Len(dfs) THEN col_data
    ELSE ColData(dfs, col_i, d + 1,
                 col_data \o stringify_column_data(dfs[d].columns[col_i]))

\* lines 248-318: one column of the result
FinalColumn(dfs, col_i) ==
    LET first_col == dfs[1].columns[col_i]
        same_type == \A d \in 1..Len(dfs) :
                        is_same_columndata_type(first_col.column_data,
                                                dfs[d].columns[col_i].column_data)
        col_data == ColData(dfs, col_i, 1, <<>>)
    IN  IF same_type /\ first_col.column_data.type \in NumericTypes
        THEN [name |-> "placeholder",
              column_data |-> [type |-> first_col.column_data.type,
                               data |-> [j \in 1..Len(col_data) |-> ParseNumber(col_data[j])]]]
        ELSE [name |-> "placeholder", column_data |-> [type |-> "Text", data |-> col_data]]

\* lines 240-321: the dataframes are combined into final_df
FinalDataFrame(dfs) ==
    IF dfs = <<>> THEN Err("No dataframes were returned.")
    ELSE Ok([columns |-> [col_i \in 1..Len(dfs[1].columns) |-> FinalColumn(dfs, col_i)]])

\* boxed_error
boxed_error(message) == [status |-> 404, body |-> message]

\* lines 334-340, with the error text passed through whatever debug is
map_err_pass_through(dbg, e) == [status |-> 500, body |-> e]

\* lines 334-340: the error of the joined future becomes a ServerError::Db
map_err(dbg, e) ==
    IF dbg THEN [status |-> 500, body |-> e]
    ELSE [status |-> 500, body |-> "Internal Server Error 1010"]

\* the sql_query results of lines 186-223, one per internal query
BindAll(qs) == [i \in 1..Len(qs) |-> sql_query(TheSchema, "Sales", qs[i])]
FirstFailed(results) == FirstIndex([i \in 1..Len(results) |-> ~results[i].ok])

InitServe ==
    /\ ll_config = None
    /\ geoservice_url = None
    /\ schema_lock = NoWriter
    /\ cube_cache = populate_cache(SalesCube, None, Tables)
    /\ pc = "idle"
    /\ req = BaseRequest
    /\ cuts_map = EmptyMap
    /\ args = NoArgs
    /\ resolved = NoResolved
    /\ queries = <<>>
    /\ bind_pc = "idle"
    /\ bind_req = NoBindRequest
    /\ bind_result = NoBindResult
    /\ debug \in BOOLEAN
    /\ loaded = [schema |-> 1, config |-> 1, cache |-> 1]
    /\ schema_guards = 0
    /\ srv_pc = "idle"
    /\ seen = NoLoad
    /\ sql_strings = <<>>
    /\ futs = <<>>
    /\ completed = <<>>
    /\ failure = ""
    /\ response = NoResponse
    /\ call = NoCall

rest == <<app, pc, req, cuts_map, args, resolved, binder, call>>

\* line 127: a request arrives
Receive ==
    /\ srv_pc = "idle"
    /\ srv_pc' = "received"
    /\ UNCHANGED <<rest, queries, debug, loaded, schema_guards, seen, sql_strings, futs,
                   completed, failure, response>>

\* line 128 with the read guard given back at once
ReadSchema_guard_dropped ==
    /\ srv_pc = "received"
    /\ seen' = [seen EXCEPT !.schema = loaded.schema]
    /\ srv_pc' = "schema"
    /\ UNCHANGED <<rest, queries, debug, loaded, schema_guards, sql_strings, futs, completed,
                   failure, response>>

\* line 128: schema.read(); the guard lives in the local `schema`
ReadSchema ==
    /\ srv_pc = "received"
    /\ schema_guards' = schema_guards + 1
    /\ seen' = [seen EXCEPT !.schema = loaded.schema]
    /\ srv_pc' = "schema"
    /\ UNCHANGED <<rest, queries, debug, loaded, sql_strings, futs, completed, failure,
                   response>>

\* lines 131-134: the logic-layer config is read and cloned
ReadConfig ==
    /\ srv_pc = "schema"
    /\ seen' = [seen EXCEPT !.config = loaded.config]
    /\ srv_pc' = "config"
    /\ UNCHANGED <<rest, queries, debug, loaded, schema_guards, sql_strings, futs, completed,
                   failure, response>>

\* line 162: the cube cache is read
ReadCache ==
    /\ srv_pc = "config"
    /\ seen' = [seen EXCEPT !.cache = loaded.cache]
    /\ srv_pc' = "cache"
    /\ UNCHANGED <<rest, queries, debug, loaded, schema_guards, sql_strings, futs, completed,
                   failure, response>>

\* lines 170-181: generate_ts_queries; an error or no query ends the request
Generate ==
    /\ srv_pc = "cache"
    /\ \E out \in {Err("generate_ts_queries")} \cup {Ok(qs) : qs \in TsQueries(MaxQueries)} :
          IF ~out.ok \/ out.val = <<>>
          THEN /\ response' = boxed_error(IF out.ok THEN "Unable to generate queries"
                                          ELSE out.err)
               /\ srv_pc' = "responded"
               /\ schema_guards' = 0
               /\ UNCHANGED queries
          ELSE /\ queries' = out.val
               /\ srv_pc' = "generated"
               /\ UNCHANGED <<response, schema_guards>>
    /\ UNCHANGED <<rest, debug, loaded, seen, sql_strings, futs, completed, failure>>

\* lines 186-223: every query is bound against schema.read(), a second read
\* guard that is given back at the end of the statement
Bind ==
    /\ srv_pc = "generated"
    /\ seen' = [seen EXCEPT !.bind = loaded.schema]
    /\ LET results == BindAll(queries)
           bad == FirstFailed(results)
       IN  IF bad # 0
           THEN /\ response' = boxed_error(results[bad].err)
                /\ srv_pc' = "responded"
                /\ schema_guards' = 0
                /\ UNCHANGED sql_strings
           ELSE /\ sql_strings' = [i \in 1..Len(results) |-> Unwrap(results[i].sql)]
                /\ srv_pc' = "bound"
                /\ UNCHANGED <<response, schema_guards>>
    /\ UNCHANGED <<rest, queries, debug, loaded, futs, completed, failure>>

\* lines 228-236 and 341: one exec_sql future per sql string, which it takes
\* over; the handler returns the joined future and its locals, the queries and
\* the read guard among them, go
Dispatch ==
    /\ srv_pc = "bound"
    /\ futs' = [i \in 1..Len(sql_strings) |-> None]
    /\ completed' = <<>>
    /\ schema_guards' = 0
    /\ queries' = <<>>
    /\ sql_strings' = <<>>
    /\ srv_pc' = "executing"
    /\ UNCHANGED <<rest, debug, loaded, seen, failure, response>>

\* one back-end execution completes, in any order; the first error fails the
\* joined future
ExecComplete ==
    /\ srv_pc = "executing"
    /\ \E i \in {x \in 1..Len(futs) : futs[x] = None} :
       \E reply \in Replies(i) :
          IF reply.ok
          THEN /\ futs' = [futs EXCEPT ![i] = Some(reply.val)]
               /\ completed' = Append(completed, i)
               /\ srv_pc' = IF \A x \in 1..Len(futs) : x = i \/ futs[x] # None
                            THEN "joined" ELSE "executing"
               /\ UNCHANGED failure
          ELSE /\ failure' = reply.err
               /\ srv_pc' = "failed"
               /\ UNCHANGED <<futs, completed>>
    /\ UNCHANGED <<rest, queries, debug, loaded, schema_guards, seen, sql_strings, response>>

\* lines 240-333: the closure of and_then
Combine ==
    /\ srv_pc = "joined"
    /\ LET final_df == FinalDataFrame(join_all(futs, completed))
       IN  IF final_df.ok
           THEN /\ response' = [status |-> 200, body |-> final_df.val]
                /\ srv_pc' = "responded"
                /\ UNCHANGED failure
           ELSE /\ failure' = final_df.err
                /\ srv_pc' = "failed"
                /\ UNCHANGED response
    /\ UNCHANGED <<rest, queries, debug, loaded, schema_guards, seen, sql_strings, futs,
                   completed>>

\* lines 334-340: map_err
MapErr ==
    /\ srv_pc = "failed"
    /\ response' = map_err(debug, failure)
    /\ srv_pc' = "responded"
    /\ UNCHANGED <<rest, queries, debug, loaded, schema_guards, seen, sql_strings, futs,
                   completed, failure>>

\* the reload: a new schema, config and cache are swapped in, in one step,
\* under the write locks
Flush ==
    /\ schema_guards = 0
    /\ loaded.schema < MaxLoads
    /\ loaded' = [schema |-> loaded.schema + 1, config |-> loaded.config + 1,
                  cache |-> loaded.cache + 1]
    /\ UNCHANGED <<rest, queries, debug, schema_guards, srv_pc, seen, sql_strings, futs,
                   completed, failure, response>>

\* the response is sent
Respond ==
    /\ srv_pc = "responded"
    /\ srv_pc' = "idle"
    /\ seen' = NoLoad
    /\ queries' = <<>>
    /\ sql_strings' = <<>>
    /\ futs' = <<>>
    /\ completed' = <<>>
    /\ failure' = ""
    /\ response' = NoResponse
    /\ UNCHANGED <<rest, debug, loaded, schema_guards>>

NextServe ==
    Receive \/ ReadSchema \/ ReadConfig \/ ReadCache \/ Generate \/ Bind \/ Dispatch
    \/ ExecComplete \/ Combine \/ MapErr \/ Flush \/ Respond

SpecServe == InitServe /\ [][NextServe]_vars

(***************************************************************************)
(* The handler and the reload on the RwLock of AppState.schema.  The       *)
(* reload asks for the write lock while the request holds a read guard and *)
(* waits.  Whether a read asked for while a writer waits is granted is     *)
(* left to the platform by std::sync::RwLock: either policy may be the one *)
(* of the build.                                                           *)
(***************************************************************************)
LockPolicies == {"prefer_readers", "prefer_writers"}

InitLock ==
    /\ ll_config = None
    /\ geoservice_url = None
    /\ schema_lock \in {[policy |-> p, writer_waiting |-> FALSE] : p \in LockPolicies}
    /\ cube_cache = populate_cache(SalesCube, None, Tables)
    /\ pc = "idle"
    /\ req = BaseRequest
    /\ cuts_map = EmptyMap
    /\ args = NoArgs
    /\ resolved = NoResolved
    /\ queries = <<>>
    /\ bind_pc = "idle"
    /\ bind_req = NoBindRequest
    /\ bind_result = NoBindResult
    /\ debug \in BOOLEAN
    /\ loaded = [schema |-> 1, config |-> 1, cache |-> 1]
    /\ schema_guards = 0
    /\ srv_pc = "idle"
    /\ seen = NoLoad
    /\ sql_strings = <<>>
    /\ futs = <<>>
    /\ completed = <<>>
    /\ failure = ""
    /\ response = NoResponse
    /\ call = NoCall

\* RwLock::read returns: no writer holds the lock (the swap is one step), and
\* no writer waits for it where waiting writers go first
ReadGranted == ~(schema_lock.policy = "prefer_writers" /\ schema_lock.writer_waiting)

\* line 128: schema.read() once the lock grants it
ReadSchemaLocked == ReadGranted /\ ReadSchema

\* lines 186-223: the schema.read() of line 191 once the lock grants it, the
\* guard of line 128 still held
BindLocked == ReadGranted /\ Bind

\* the reload asks for the write lock while a read guard is held, and waits
FlushWait ==
    /\ schema_guards > 0
    /\ ~schema_lock.writer_waiting
    /\ loaded.schema < MaxLoads
    /\ schema_lock' = [schema_lock EXCEPT !.writer_waiting = TRUE]
    /\ UNCHANGED <<ll_config, geoservice_url, cube_cache, logic, binder, server, call>>

\* the reload gets the write lock, no read guard being held, and swaps the
\* schema, config and cache in
FlushLocked ==
    /\ schema_guards = 0
    /\ loaded.schema < MaxLoads
    /\ loaded' = [schema |-> loaded.schema + 1, config |-> loaded.config + 1,
                  cache |-> loaded.cache + 1]
    /\ schema_lock' = [schema_lock EXCEPT !.writer_waiting = FALSE]
    /\ UNCHANGED <<ll_config, geoservice_url, cube_cache, logic, binder, call, debug,
                   schema_guards, srv_pc, seen, sql_strings, futs, completed, failure,
                   response>>

NextLock ==
    Receive \/ ReadSchemaLocked \/ ReadConfig \/ ReadCache \/ Generate \/ BindLocked
    \/ Dispatch \/ ExecComplete \/ Combine \/ MapErr \/ Respond \/ FlushWait \/ FlushLocked

SpecLock == InitLock /\ [][NextLock]_vars

(***************************************************************************)
(* The SQL generator: primary_agg (tesseract-clickhouse, primary_agg.rs).  *)
(* A query text is kept by its parts: a select is the record of its select *)
(* list, its source, its where clauses and its group by, all in the order  *)
(* they are written in the text.                                           *)
(***************************************************************************)
\* the bounds of the generator's inputs
MaxSqlDrills == 2
MaxSqlCuts == 2

Reverse(seq) == [i \in 1..Len(seq) |-> seq[Len(seq) + 1 - i]]
\* slice::swap
Swap(seq, i, j) ==
    [k \in 1..Len(seq) |-> IF k = i THEN seq[j] ELSE IF k = j THEN seq[i] ELSE seq[k]]
\* a drill or a cut is external when it is on an inline-table literal or on a
\* table other than the fact table (lines 46-52, 56)
IsExternal(item, table) == item.inline_table # None \/ item.table.name # table.name
RECURSIVE External(_, _)
\* of the drills or cuts, those on an inline-table literal or on a table other
\* than the fact table (lines 45-57)
External(items, table) ==
    IF items = <<>> THEN <<>>
    ELSE (IF IsExternal(Head(items), table)
          THEN <<Head(items)>> ELSE <<>>) \o External(Tail(items), table)
RECURSIVE Inline(_, _)
\* of the drills or cuts, those on the fact table itself (lines 60-72)
Inline(items, table) ==
    IF items = <<>> THEN <<>>
    ELSE (IF Head(items).inline_table = None /\ Head(items).table.name = table.name
          THEN <<Head(items)>> ELSE <<>>) \o Inline(Tail(items), table)

\* the columns of a drill: per level its key column and its name column, then
\* the property columns
ColumnsOfDrill(d) ==
    Concat([i \in 1..Len(d.level_columns) |->
              <<d.level_columns[i].key_column>>
              \o (IF d.level_columns[i].name_column = None THEN <<>>
                  ELSE <<Unwrap(d.level_columns[i].name_column)>>)])
    \o d.property_columns
\* the alias a column is selected under
AliasOf(column) == <<column, "alias">>
\* the name of the i-th measure in the fact query
MeasureName(i) == <<"m", ToString(i)>>
\* DrilldownSql::col_alias_string: each column of the drill with its alias
col_alias_string(d) ==
    [i \in 1..Len(ColumnsOfDrill(d)) |->
        [expr |-> <<ColumnsOfDrill(d)[i]>>, as |-> Some(AliasOf(ColumnsOfDrill(d)[i]))]]
\* DrilldownSql::col_alias_only_string: the aliases alone
col_alias_only_string(d) ==
    [i \in 1..Len(ColumnsOfDrill(d)) |->
        [expr |-> AliasOf(ColumnsOfDrill(d)[i]), as |-> None]]
\* a column written by its name
Col(column) == [expr |-> <<column>>, as |-> None]
\* cut_sql_string: the member filter of a cut
cut_sql_string(c) == [column |-> c.column, members |-> c.members]
\* dim_subquery: the subquery over the dimension table of a drill, its columns
\* under their aliases and the primary key under the name of the foreign key;
\* a cut, when given, is its where clause
dim_subquery(drill, cut) ==
    [sql |-> [select |-> col_alias_string(Unwrap(drill))
                         \o <<[expr |-> <<Unwrap(drill).primary_key>>,
                               as |-> Some(<<Unwrap(drill).foreign_key>>)]>>,
              from |-> IF Unwrap(drill).inline_table # None
                       THEN [literal |-> Unwrap(drill).inline_table,
                             name |-> Unwrap(drill).table.name]
                       ELSE [literal |-> None, name |-> Unwrap(drill).table.name],
              where |-> IF cut = None THEN <<>> ELSE <<cut_sql_string(Unwrap(cut))>>],
     foreign_key |-> Unwrap(drill).foreign_key,
     dim_cols |-> Some(col_alias_only_string(Unwrap(drill)))]
\* agg_sql_string_pass_1, agg_sql_string_select_mea and agg_sql_string_pass_2
\* for the plain aggregators: "agg(col) as m{i}", "m{i}", "agg(m{i}) as final_m{i}"
agg_sql_string_pass_1(column, aggregator, i) ==
    [expr |-> <<aggregator, column>>, as |-> Some(MeasureName(i))]
agg_sql_string_select_mea(aggregator, i) == [expr |-> MeasureName(i), as |-> None]
agg_sql_string_pass_2(aggregator, i) ==
    [expr |-> <<aggregator>> \o MeasureName(i), as |-> Some(<<"final_m", ToString(i)>>)]

\* dimension subqueries left in the order they were popped
DimSubqueries_1(table, drills) ==
    [i \in 1..Len(External(drills, table)) |->
        dim_subquery(Some(Reverse(External(drills, table))[i]), None)]
\* the dimension subqueries in the order they are joined (lines 74-104): one
\* per external drill, popped from the end of the list, and the first one
\* whose foreign key is the primary key of the fact table swapped to the head
DimSubqueries(table, drills) ==
    LET popped == [i \in 1..Len(External(drills, table)) |->
                      dim_subquery(Some(Reverse(External(drills, table))[i]), None)]
        hits == {i \in 1..Len(popped) :
                    table.primary_key # None
                    /\ popped[i].foreign_key = Unwrap(table.primary_key)}
    IN  IF hits = {} THEN popped
        ELSE Swap(popped, 1, CHOOSE i \in hits : \A j \in hits : i <= j)

\* a clause that keeps the member filter of a cut without members
ExtCutClause_1(c) ==
    [foreign_key |-> c.foreign_key,
     in_select |-> Some([primary_key |-> c.primary_key,
                         cut_table |-> [literal |-> c.inline_table, name |-> c.table.name],
                         where |-> Some(cut_sql_string(c))]),
     plain |-> None]
\* one clause of the where of the fact query per external cut (lines 151-178)
ExtCutClause(c) ==
    [foreign_key |-> c.foreign_key,
     in_select |-> Some([primary_key |-> c.primary_key,
                         cut_table |-> [literal |-> c.inline_table, name |-> c.table.name],
                         where |-> IF c.members = <<>> THEN None
                                   ELSE Some(cut_sql_string(c))]),
     plain |-> None]
\* one clause per inline cut (lines 147-149)
InlineCutClause(c) ==
    [foreign_key |-> c.foreign_key, in_select |-> None, plain |-> Some(cut_sql_string(c))]

\* the columns the fact query hands up: the aliases of the inline drills, then
\* the foreign keys of the dimension subqueries (lines 126-131)
AllFactDimAliass(table, drills) ==
    Concat([i \in 1..Len(Inline(drills, table)) |->
              col_alias_only_string(Inline(drills, table)[i])])
    \o [i \in 1..Len(DimSubqueries(table, drills)) |->
          Col(DimSubqueries(table, drills)[i].foreign_key)]
\* a group by that leaves the hidden columns out
GroupBy_1(all_fact_dim_aliass, hidden_dim_cols) == all_fact_dim_aliass
\* the group by of the fact query: the hidden columns after the others
\* (lines 185-190)
GroupBy(all_fact_dim_aliass, hidden_dim_cols) == all_fact_dim_aliass \o hidden_dim_cols

\* the query over the fact table (lines 115-190)
FactSql(table, cuts, drills, meas, hidden) ==
    LET dim_subqueries == DimSubqueries(table, drills)
        inline_drills == Inline(drills, table)
        dim_idx_cols == [i \in 1..Len(dim_subqueries) |-> Col(dim_subqueries[i].foreign_key)]
        all_fact_dim_cols ==
            Concat([i \in 1..Len(inline_drills) |-> col_alias_string(inline_drills[i])])
            \o dim_idx_cols
        all_fact_dim_aliass == AllFactDimAliass(table, drills)
        hidden_dim_cols ==
            Concat([i \in 1..Len(hidden) |-> col_alias_string(hidden[i].drilldown_sql)])
        mea_cols == [i \in 1..Len(meas) |->
                        agg_sql_string_pass_1(meas[i].column, meas[i].aggregator, i - 1)]
        inline_cuts == Inline(cuts, table)
        ext_cuts == External(cuts, table)
    IN  [select |-> all_fact_dim_cols \o hidden_dim_cols \o mea_cols,
         from |-> [literal |-> None, name |-> table.name],
         where |-> [i \in 1..Len(inline_cuts) |-> InlineCutClause(inline_cuts[i])]
                   \o [i \in 1..Len(ext_cuts) |-> ExtCutClause(ext_cuts[i])],
         group_by |-> GroupBy(all_fact_dim_aliass, hidden_dim_cols)]

RECURSIVE JoinSubqueries(_, _, _)
\* the loop of lines 211-232 from the i-th dimension subquery on: each turn
\* adds the columns of the subquery to the columns carried up and wraps the
\* query so far in a join with the subquery
JoinSubqueries(dim_subqueries, i, current_dim_cols) ==
    IF i > Len(dim_subqueries) THEN <<>>
    ELSE LET cols == current_dim_cols \o Unwrap(dim_subqueries[i].dim_cols) IN
         <<[select_dim_cols |-> cols,
            from |-> dim_subqueries[i].sql,
            using |-> dim_subqueries[i].foreign_key]>>
         \o JoinSubqueries(dim_subqueries, i + 1, cols)

\* primary_agg (lines 21-253): the final query by its parts, the fact query
\* innermost, the joins around it from the inside out, the final select
\* around them; and the final drill columns
primary_agg(table, cuts, drills, meas, hidden_drills) ==
    LET hidden == IF hidden_drills = None THEN <<>> ELSE Unwrap(hidden_drills)
        fact_sql == FactSql(table, cuts, drills, meas, hidden)
        select_mea_cols == [i \in 1..Len(meas) |->
                               agg_sql_string_select_mea(meas[i].aggregator, i - 1)]
        final_drill_cols ==
            Concat([i \in 1..Len(drills) |-> col_alias_only_string(drills[i])])
        final_mea_cols == [i \in 1..Len(meas) |->
                              agg_sql_string_pass_2(meas[i].aggregator, i - 1)]
    IN  [final_sql |->
            [select |-> final_drill_cols \o final_mea_cols,
             joins |-> JoinSubqueries(DimSubqueries(table, drills), 1,
                                      AllFactDimAliass(table, drills)),
             select_mea_cols |-> select_mea_cols,
             fact |-> fact_sql,
             group_by |-> final_drill_cols],
         final_drill_cols |-> final_drill_cols]

(***************************************************************************)
(* Functions of the handler and of the cache build, called on their own    *)
(* with arguments of every shape.                                          *)
(***************************************************************************)
MaxArgLen == 5

RECURSIVE Strings(_, _)
\* the strings of up to n symbols of an alphabet
Strings(alphabet, n) ==
    IF n = 0 THEN {<<>>}
    ELSE Strings(alphabet, n - 1) \cup
         {Append(s, c) : s \in {x \in Strings(alphabet, n - 1) : Len(x) = n - 1},
                         c \in alphabet}

\* the arguments given to deserialize_args
ArgStrings == Strings({"a", "b", ",", "[", "]"}, MaxArgLen)

InitCalls ==
    /\ ll_config = None
    /\ geoservice_url = None
    /\ schema_lock = NoWriter
    /\ cube_cache = populate_cache(SalesCube, None, Tables)
    /\ pc = "idle"
    /\ req = BaseRequest
    /\ cuts_map = EmptyMap
    /\ args = NoArgs
    /\ resolved = NoResolved
    /\ queries = <<>>
    /\ bind_pc = "idle"
    /\ bind_req = NoBindRequest
    /\ bind_result = NoBindResult
    /\ ServerIdle
    /\ call = NoCall

\* LogicLayerQueryOpt::deserialize_args is called
CallDeserializeArgs ==
    /\ call = NoCall
    /\ \E arg \in ArgStrings :
          call' = [fn |-> "deserialize_args", arg |-> arg, ret |-> deserialize_args(arg)]
    /\ UNCHANGED <<app, logic, binder, server>>

\* the bounds of the calls
MaxIds == 5
MaxInlineRows == 3

\* the lists of keys given to get_neighbors_map: repeated keys included
IdLists == Strings({"a", "b", "c", "d", "e"}, MaxIds)

\* get_neighbors_map is called
CallNeighborsMap ==
    /\ call = NoCall
    /\ \E distinct_ids \in IdLists :
          call' = [fn |-> "get_neighbors_map", arg |-> distinct_ids,
                   ret |-> get_neighbors_map(distinct_ids)]
    /\ UNCHANGED <<app, logic, binder, server>>

\* a hierarchy Region > Shop: its rows pair a region key with a shop key, the two
\* levels sharing no key
RegionKeys == {W("r1"), W("r2")}
ShopKeys == {W("t1"), W("t2"), W("t3")}
RECURSIVE RowLists(_)
\* the lists of at least one and at most n (region, shop) rows, in any order and
\* with any repetition
RowLists(n) ==
    IF n = 1 THEN {<<<<r, t>>>> : r \in RegionKeys, t \in ShopKeys}
    ELSE RowLists(n - 1)
         \cup {Append(rows, <<r, t>>) :
                  rows \in {x \in RowLists(n - 1) : Len(x) = n - 1},
                  r \in RegionKeys, t \in ShopKeys}
StoreRows == RowLists(MaxInlineRows)
RegionLevel == [name |-> "Region", key_column |-> "region_id",
                name_column |-> None, properties |-> None]
ShopLevel == [name |-> "Shop", key_column |-> "store_id",
              name_column |-> None, properties |-> None]
\* the InlineTable of the rows
InlineTableOf(rows) ==
    [rows |-> [i \in 1..Len(rows) |->
                 [row_values |-> <<[column |-> "region_id", value |-> rows[i][1]],
                                   [column |-> "store_id", value |-> rows[i][2]]>>]]]
\* the cube whose Store dimension is given inline
StoresCube(rows) ==
    [name |-> "Stores",
     table |-> [name |-> "sales", primary_key |-> None],
     dimensions |-> <<[name |-> "Store", is_shared |-> FALSE, foreign_key |-> None,
                       dim_type |-> "Standard", foreign_key_type |-> None,
                       hierarchies |-> <<[name |-> "Store", table |-> None,
                                          inline_table |-> Some(InlineTableOf(rows)),
                                          primary_key |-> "store_id",
                                          levels |-> <<RegionLevel, ShopLevel>>]>>]>>,
     measures |-> <<[name |-> "Revenue", column |-> "revenue", aggregator |-> "sum"]>>]
\* a cube with two dimensions over the table geo: both have a level Nation
\* and a level County, and both County levels have a property Area
TradeDim(name, foreign_key) ==
    [name |-> name, is_shared |-> FALSE, foreign_key |-> Some(foreign_key),
     dim_type |-> "Standard", foreign_key_type |-> None,
     hierarchies |-> <<[name |-> name, table |-> Some([name |-> "geo"]),
                        inline_table |-> None, primary_key |-> "geo_id",
                        levels |-> <<NationLevel, CountyLevel>>]>>]
TradeCube ==
    [name |-> "Trade",
     table |-> [name |-> "sales", primary_key |-> None],
     dimensions |-> <<TradeDim("Origin", "origin_id"), TradeDim("Destination", "dest_id")>>,
     measures |-> <<[name |-> "Revenue", column |-> "revenue", aggregator |-> "sum"]>>]
\* a configuration that gives the level Product.Item the name of the level Category
ConfigClash ==
    [level_names |-> <<[level_name |-> LevelNameOf("Product", "Product", "Item"),
                        unique_name |-> "Category"]>>,
     named_sets |-> <<>>]
\* the cubes populate_cache is called on, each with a logic-layer config; the
\* inline table of a cube may have no rows
CachedCubes ==
    {[cube |-> c, ll_config |-> cfg] :
        c \in {SalesCube, TradeCube}, cfg \in {None, Some(ConfigA), Some(ConfigClash)}}
    \cup {[cube |-> StoresCube(rows), ll_config |-> None] : rows \in StoreRows \cup {<<>>}}

\* how populate_cache ends: a panic of get_neighbors_map (line 390) unwinds
\* through it; the back-end of the model answers every probe, and nothing
\* between lines 399 and 430 looks at the maps, so it returns Ok otherwise
PopulateOutcome(cube, config, probe_db) ==
    IF \E j \in 1..Len(LevelsOfCube(cube, 1)) :
          get_neighbors_map(DistinctIdsOf(cube, LevelsOfCube(cube, 1)[j])).panicked
    THEN "panic" ELSE "ok"

\* populate_cache is called on a cube
CallPopulateCache ==
    /\ call = NoCall
    /\ \E a \in CachedCubes :
          call' = [fn |-> "populate_cache", arg |-> a,
                   outcome |-> PopulateOutcome(a.cube, a.ll_config, Tables),
                   ret |-> IF PopulateOutcome(a.cube, a.ll_config, Tables) = "ok"
                           THEN Some(populate_cache(a.cube, a.ll_config, Tables))
                           ELSE None]
    /\ UNCHANGED <<app, logic, binder, server>>

\* the keys of the cube's first dimension, level after level
KeysOfCube(cube) ==
    UNION {RangeOf(DistinctIdsOf(cube, LevelsOfDim(cube.dimensions[1], 1)[j])) :
              j \in 1..Len(LevelsOfDim(cube.dimensions[1], 1))}

\* resolve_cuts is called with a cut under the name of the first dimension of the
\* cube whose cache was just built
CallResolveCuts ==
    /\ call.fn = "populate_cache"
    /\ call.outcome = "ok"
    /\ \E cut \in KeysOfCube(call.arg.cube) :
          LET cuts == [k \in {call.arg.cube.dimensions[1].name} |-> cut] IN
          call' = [fn |-> "resolve_cuts",
                   arg |-> [cube |-> call.arg.cube, cache |-> Unwrap(call.ret), cut |-> cut],
                   ret |-> resolve_cuts(cuts, call.arg.cube, Unwrap(call.ret), None, "up",
                                        <<call.arg.cube.dimensions[1].name>>)]
    /\ UNCHANGED <<app, logic, binder, server>>

\* the tables get_children_data queries: the rows in any order and repetition
ChildrenDbs == {[stores |-> [i \in 1..Len(rows) |->
                               [region_id |-> rows[i][1], store_id |-> rows[i][2]]]] :
                   rows \in StoreRows}

\* get_children_data is called
CallChildrenData ==
    /\ call = NoCall
    /\ \E db \in ChildrenDbs :
          call' = [fn |-> "get_children_data", arg |-> db.stores,
                   ret |-> get_children_data(RegionLevel, ShopLevel, "stores", db)]
    /\ UNCHANGED <<app, logic, binder, server>>

\* get_inline_children_data is called
CallInlineChildrenData ==
    /\ call = NoCall
    /\ \E rows \in StoreRows :
          call' = [fn |-> "get_inline_children_data",
                   arg |-> [i \in 1..Len(rows) |->
                              [region_id |-> rows[i][1], store_id |-> rows[i][2]]],
                   ret |-> get_inline_children_data(RegionLevel, ShopLevel,
                                                    InlineTableOf(rows))]
    /\ UNCHANGED <<app, logic, binder, server>>

\* the fact tables, drills, cuts and hidden drills primary_agg is called with
FactTables ==
    {[name |-> "sales", primary_key |-> pk] : pk \in {None, Some("geo_id")}}
CountyDrill ==
    [table |-> [name |-> "geo"], inline_table |-> None,
     primary_key |-> "geo_id", foreign_key |-> "geo_id",
     level_columns |-> <<[key_column |-> "county_id", name_column |-> Some("county_name")]>>,
     property_columns |-> <<>>]
ItemDrill ==
    [table |-> [name |-> "product"], inline_table |-> None,
     primary_key |-> "product_id", foreign_key |-> "product_id",
     level_columns |-> <<[key_column |-> "item_id", name_column |-> None]>>,
     property_columns |-> <<"colour">>]
YearDrill ==
    [table |-> [name |-> "sales"], inline_table |-> None,
     primary_key |-> "year", foreign_key |-> "year",
     level_columns |-> <<[key_column |-> "year", name_column |-> None]>>,
     property_columns |-> <<>>]
ShopDrill ==
    [table |-> [name |-> "sales"],
     inline_table |-> Some(InlineTableOf(<<<<W("r1"), W("t1")>>>>)),
     primary_key |-> "store_id", foreign_key |-> "store_id",
     level_columns |-> <<[key_column |-> "store_id", name_column |-> None]>>,
     property_columns |-> <<>>]
MonthDrill ==
    [table |-> [name |-> "sales"], inline_table |-> None,
     primary_key |-> "month", foreign_key |-> "month",
     level_columns |-> <<[key_column |-> "month", name_column |-> None]>>,
     property_columns |-> <<>>]
CutOf(drill, column, members) ==
    [table |-> drill.table, inline_table |-> drill.inline_table,
     primary_key |-> drill.primary_key, foreign_key |-> drill.foreign_key,
     column |-> column, members |-> members, member_type |-> "NonText"]
SqlDrills == Strings({CountyDrill, ItemDrill, YearDrill, ShopDrill}, MaxSqlDrills)
SqlCuts ==
    Strings({CutOf(CountyDrill, "county_id", <<W("c1")>>),
             CutOf(CountyDrill, "county_id", <<>>),
             CutOf(YearDrill, "year", <<W("9")>>),
             CutOf(ShopDrill, "store_id", <<W("t1")>>)}, MaxSqlCuts)
HiddenDrills == {None, Some(<<>>), Some(<<[drilldown_sql |-> MonthDrill]>>)}
SqlMeasures == <<[column |-> "revenue", aggregator |-> "sum"]>>

\* primary_agg is called
CallPrimaryAgg ==
    /\ call = NoCall
    /\ \E table \in FactTables, cuts \in SqlCuts, drills \in SqlDrills,
          hidden_drills \in HiddenDrills :
          call' = [fn |-> "primary_agg",
                   arg |-> [table |-> table, cuts |-> cuts, drills |-> drills,
                            hidden_drills |-> hidden_drills],
                   ret |-> primary_agg(table, cuts, drills, SqlMeasures, hidden_drills)]
    /\ UNCHANGED <<app, logic, binder, server>>


\* the call returns to its caller
CallReturn ==
    /\ call # NoCall
    /\ call' = NoCall
    /\ UNCHANGED <<app, logic, binder, server>>

NextCalls ==
    \/ CallDeserializeArgs
    \/ CallNeighborsMap
    \/ CallPopulateCache
    \/ CallResolveCuts
    \/ CallChildrenData
    \/ CallInlineChildrenData
    \/ CallPrimaryAgg
    \/ CallReturn

SpecCalls == InitCalls /\ [][NextCalls]_vars

(***************************************************************************)
(* Properties of generate_ts_queries.                                      *)
(***************************************************************************)
\* the dimensions under cut and, for each, the levels under cut
CutDims == DOMAIN resolved.dcm
LevelsUnderCut(d) == DOMAIN resolved.dcm[d]

RECURSIVE FanOut(_)
\* K_1 * ... * K_N
FanOut(dims) ==
    IF dims = {} THEN 1
    ELSE LET d == CHOOSE x \in dims : TRUE IN
         Cardinality(LevelsUnderCut(d)) * FanOut(dims \ {d})

CutLevelsOf(q) == {q.cuts[j].level_name : j \in 1..Len(q.cuts)}

\* C1: with K_i >= 1 levels under cut in each of the N >= 1 cut dimensions,
\* exactly K_1 * ... * K_N queries are emitted, each with exactly one cut per cut
\* dimension (a level under cut with its resolved members), no two with the same
\* combination of cut levels; with no resolved cut, exactly one query with an
\* empty cut list is emitted; the emitted list is never empty.
C1_CartesianCompleteness ==
    pc = "done" =>
        /\ Len(queries) >= 1
        /\ IF CutDims = {}
           THEN Len(queries) = 1 /\ queries[1].cuts = <<>>
           ELSE /\ \A d \in CutDims : Cardinality(LevelsUnderCut(d)) >= 1
                /\ Len(queries) = FanOut(CutDims)
                /\ \A i \in 1..Len(queries) :
                      /\ Len(queries[i].cuts) = Cardinality(CutDims)
                      /\ \A d \in CutDims : \E j \in 1..Len(queries[i].cuts) :
                            LET c == queries[i].cuts[j] IN
                            /\ c.level_name.dimension = d
                            /\ c.level_name \in LevelsUnderCut(d)
                            /\ c.members = resolved.dcm[d][c.level_name]
                /\ \A i, j \in 1..Len(queries) :
                      i # j => CutLevelsOf(queries[i]) # CutLevelsOf(queries[j])

\* two dimensions with two levels under cut each: four queries
C1_Witness ==
    /\ pc = "done"
    /\ Cardinality(CutDims) = 2
    /\ \A d \in CutDims : Cardinality(LevelsUnderCut(d)) = 2
    /\ Len(queries) = 4

\* the drilldowns a query gets for the cuts it carries: the level of each cut whose
\* dimension has more than one level under cut, in the order of the cuts
RECURSIVE CarriedDrills(_, _)
CarriedDrills(cuts, j) ==
    IF j > Len(cuts) THEN <<>>
    ELSE (IF Cardinality(LevelsUnderCut(cuts[j].level_name.dimension)) > 1
          THEN <<cuts[j].level_name>> ELSE <<>>) \o CarriedDrills(cuts, j + 1)

Resolved == pc \in {"resolved", "done"} \/ (pc = "error" /\ resolved.err # "")

\* the request has one cut key with one cut value, which reaches resolve_cuts as
\* the only cut, unchanged
SingleCut ==
    /\ Cardinality(DOMAIN req.cuts) = 1
    /\ req.time = None
    /\ cuts_map = req.cuts
    /\ \A k \in DOMAIN req.cuts : Len(Split(req.cuts[k], ",")) = 1
CutKey == CHOOSE k \in DOMAIN req.cuts : TRUE
CutElements == Split(req.cuts[CutKey], ":")
CutElement == CutElements[1]
HasOperation(op) == Len(CutElements) = 2 /\ CutElements[2] = W(op)

\* the id index of the dimension the cut key names
IdIndex == cube_cache.dimension_caches[CutKey].id_map

\* the level the cut resolves to
ResolvedLevel ==
    IF CutKey \in DOMAIN cube_cache.dimension_caches
    THEN (IF CutElement \in DOMAIN IdIndex /\ Len(IdIndex[CutElement]) = 1
          THEN Some(IdIndex[CutElement][1]) ELSE None)
    ELSE IF CutKey \in DOMAIN cube_cache.level_map
         THEN Some(cube_cache.level_map[CutKey]) ELSE None

\* the levels of the hierarchy of a level name, top first, and its place in them
HierLevelsOf(ln) ==
    LET d == CHOOSE x \in {SalesCube.dimensions[i] : i \in 1..Len(SalesCube.dimensions)} :
                 x.name = ln.dimension
        h == CHOOSE x \in {d.hierarchies[i] : i \in 1..Len(d.hierarchies)} :
                 x.name = ln.hierarchy
    IN h.levels
DepthOf(ln) == CHOOSE i \in 1..Len(HierLevelsOf(ln)) : HierLevelsOf(ln)[i].name = ln.level
DimTypeOf(ln) ==
    (CHOOSE x \in {SalesCube.dimensions[i] : i \in 1..Len(SalesCube.dimensions)} :
         x.name = ln.dimension).dim_type

RECURSIVE AncestorChain(_, _, _)
\* the ancestors of an element of the level at place i of `levels`, nearest first,
\* each found in the parent map of the level below it with the id found before
AncestorChain(ln, i, element) ==
    LET levels == HierLevelsOf(ln) IN
    IF i = 1 \/ levels[i].name \notin DOMAIN cube_cache.level_caches THEN <<>>
    ELSE LET parent_map == cube_cache.level_caches[levels[i].name].parent_map IN
         IF parent_map = None \/ element \notin DOMAIN Unwrap(parent_map) THEN <<>>
         ELSE <<[level_name |-> LevelNameOf(ln.dimension, ln.hierarchy, levels[i - 1].name),
                 id |-> Unwrap(parent_map)[element]]>>
              \o AncestorChain(ln, i - 1, Unwrap(parent_map)[element])

\* C3: for a cut value e:parents resolved to a level L, resolve_cuts emits for each
\* ancestor level one cut entry whose member is the id of e's ancestor at that
\* level, found by chaining the parent maps: each step looks up the parent id
\* found at the step before.
C3_ParentsChained ==
    (Resolved /\ resolved.err = "" /\ SingleCut /\ HasOperation("parents")
       /\ ResolvedLevel # None) =>
        LET L == Unwrap(ResolvedLevel)
            chain == AncestorChain(L, DepthOf(L), CutElement)
        IN \A n \in 1..Len(chain) :
              /\ L.dimension \in DOMAIN resolved.dcm
              /\ chain[n].level_name \in DOMAIN resolved.dcm[L.dimension]
              /\ resolved.dcm[L.dimension][chain[n].level_name] = <<chain[n].id>>

\* the cut entries of one level with its members, and nothing else
OnlyEntry(ln, members) ==
    resolved.dcm = [d \in {ln.dimension} |-> [l \in {ln} |-> members]]

\* C4 (as the code has it): for a :neighbors cut the geoservice is called only
\* when the dimension is geo and a URL is configured, and then its answer is the
\* cut; a geo dimension with no URL configured is an error and gives no cut; any
\* other dimension takes the neighbors window cached under the level's name (no
\* cut when the element has none, an error when no cache is stored under that
\* name) and calls nothing.
C4_NeighborsSource ==
    /\ resolved.geo_calls > 0 => geoservice_url # None
    /\ (Resolved /\ SingleCut /\ HasOperation("neighbors") /\ ResolvedLevel # None) =>
          LET L == Unwrap(ResolvedLevel) IN
          IF DimTypeOf(L) = "Geo"
          THEN IF geoservice_url # None
               THEN /\ resolved.geo_calls = 1
                    /\ \/ pc = "error" /\ resolved.err = "geoservice" /\ resolved.dcm = EmptyMap
                       \/ resolved.err = "" /\ OnlyEntry(L, <<W("g1"), W("g2")>>)
               ELSE /\ resolved.geo_calls = 0
                    /\ pc = "error"
                    /\ resolved.err = "no geoservice url"
                    /\ resolved.dcm = EmptyMap
                    /\ queries = <<>>
          ELSE /\ resolved.geo_calls = 0
               /\ IF L.level \notin DOMAIN cube_cache.level_caches
                  THEN pc = "error" /\ resolved.err = "no level cache"
                  ELSE LET window == cube_cache.level_caches[L.level].neighbors_map IN
                       /\ resolved.err = ""
                       /\ IF CutElement \in DOMAIN window
                          THEN OnlyEntry(L, window[CutElement])
                          ELSE resolved.dcm = EmptyMap

\* a :neighbors cut on the geo dimension with no URL configured has failed
C4_Witness ==
    /\ pc = "error"
    /\ SingleCut /\ HasOperation("neighbors") /\ ResolvedLevel # None
    /\ DimTypeOf(Unwrap(ResolvedLevel)) = "Geo"
    /\ geoservice_url = None
    /\ resolved.err = "no geoservice url"

\* C4 as stated: whenever the geoservice is not to be called (the dimension is
\* not geo, or no URL is configured), the cached neighbors window of the level is
\* the cut, without an error.
C4_CachedNeighborsWithoutUrl ==
    /\ resolved.geo_calls > 0 => geoservice_url # None
    /\ (Resolved /\ SingleCut /\ HasOperation("neighbors") /\ ResolvedLevel # None) =>
          LET L == Unwrap(ResolvedLevel) IN
          (/\ ~(DimTypeOf(L) = "Geo" /\ geoservice_url # None)
           /\ L.level \in DOMAIN cube_cache.level_caches
           /\ CutElement \in DOMAIN cube_cache.level_caches[L.level].neighbors_map) =>
              /\ resolved.err = ""
              /\ OnlyEntry(L, cube_cache.level_caches[L.level].neighbors_map[CutElement])

\* C5: for a cut whose key is a dimension name: an element the id index lists
\* under exactly one level is cut at that level; an element absent from the index
\* is dropped without an error and without a cut entry; an element listed under
\* more than one level is an error and no query is produced.
C5_DimensionKeyCut ==
    (Resolved /\ SingleCut /\ CutKey \in DOMAIN cube_cache.dimension_caches) =>
        IF CutElement \notin DOMAIN IdIndex
        THEN pc # "error" /\ resolved.err = "" /\ resolved.dcm = EmptyMap
        ELSE IF Len(IdIndex[CutElement]) > 1
             THEN /\ pc = "error"
                  /\ resolved.err = "matches multiple levels"
                  /\ resolved.dcm = EmptyMap
                  /\ queries = <<>>
             ELSE /\ Len(IdIndex[CutElement]) = 1
                  /\ Len(CutElements) = 1 =>
                        resolved.err = "" /\ OnlyEntry(IdIndex[CutElement][1], <<CutElement>>)

\* an element listed under two levels of the dimension has been refused
C5_Witness ==
    /\ pc = "error"
    /\ SingleCut /\ CutKey \in DOMAIN cube_cache.dimension_caches
    /\ CutElement \in DOMAIN IdIndex
    /\ Len(IdIndex[CutElement]) = 2
    /\ resolved.err = "matches multiple levels"
(***************************************************************************)
(* Properties of the time parameter.                                       *)
(***************************************************************************)
\* clean_cuts_map has returned: an error, or the cut map
CleanFailed == pc = "error" /\ resolved.err = ""
CleanReturned == pc \notin {"idle", "request"}

\* the tokens of the time parameter, each split at "."
TimeTokensOf == IF req.time = None THEN <<>> ELSE Split(Unwrap(req.time), ",")
TokenParts(i) == Split(TimeTokensOf[i], ".")

\* what the cache holds for a precision word
PrecisionLevel ==
    (W("year") :> cube_cache.year_level) @@ (W("quarter") :> cube_cache.quarter_level)
    @@ (W("month") :> cube_cache.month_level) @@ (W("week") :> cube_cache.week_level)
    @@ (W("day") :> cube_cache.day_level)
PrecisionValues ==
    (W("year") :> cube_cache.year_values) @@ (W("quarter") :> cube_cache.quarter_values)
    @@ (W("month") :> cube_cache.month_values) @@ (W("week") :> cube_cache.week_values)
    @@ (W("day") :> cube_cache.day_values)

\* the decimal rendering of the integer tokens of the requests
DecimalOf ==
    (W("9") :> W("9")) @@ (<<"0", "9">> :> W("9")) @@ (<<"+", "9">> :> W("9"))
    @@ (W("7") :> W("7")) @@ (<<"1", "0">> :> <<"1", "0">>)
    @@ (U32MaxDigits :> U32MaxDigits)

\* the value a time token stands for, over a non-empty value list
TokenValue(values, word) ==
    IF word = W("latest") THEN Some(values[Len(values)])
    ELSE IF word = W("oldest") THEN Some(values[1])
    ELSE IF word \in DOMAIN DecimalOf THEN Some(DecimalOf[word])
    ELSE None

\* C6: for a precision whose level is cached with a non-empty value list, the time
\* token latest gives the last value, oldest the first, an integer N its decimal
\* rendering (in the list or not), and clean_cuts_map returns the cut map of the
\* request with exactly the pair (level name, that value) put in.
C6_TimeTokenResolution ==
    (CleanReturned /\ Len(TimeTokensOf) = 1 /\ Len(TokenParts(1)) = 2
       /\ TokenParts(1)[1] \in DOMAIN PrecisionLevel) =>
        LET level == PrecisionLevel[TokenParts(1)[1]]
            values == PrecisionValues[TokenParts(1)[1]]
        IN (/\ level # None /\ values # None /\ Unwrap(values) # <<>>
            /\ TokenValue(Unwrap(values), TokenParts(1)[2]) # None) =>
              /\ ~CleanFailed
              /\ cuts_map = [k \in DOMAIN req.cuts \cup {Unwrap(level).name} |->
                                IF k = Unwrap(level).name
                                THEN Unwrap(TokenValue(Unwrap(values), TokenParts(1)[2]))
                                ELSE req.cuts[k]]

\* year.latest over the years 8, 9, 10 has put the cut Year=10 in place of the
\* request's own cut on Year
C6_Witness ==
    /\ pc = "cleaned"
    /\ req.time = Some(TimeToken("year", W("latest")))
    /\ "Year" \in DOMAIN req.cuts
    /\ cuts_map["Year"] = <<"1", "0">>
    /\ req.cuts["Year"] # cuts_map["Year"]

\* a time token that cannot be resolved: its precision has no level in the cache,
\* or it asks for latest or oldest over an empty value list
UnresolvableToken(i) ==
    /\ Len(TokenParts(i)) = 2
    /\ TokenParts(i)[1] \in DOMAIN PrecisionLevel
    /\ \/ PrecisionLevel[TokenParts(i)[1]] = None
       \/ /\ TokenParts(i)[2] \in {W("latest"), W("oldest")}
          /\ PrecisionValues[TokenParts(i)[1]] = Some(<<>>)

\* C7: when a time token names a precision with no level in the cache, or asks
\* for latest or oldest over an empty value list, clean_cuts_map returns an
\* error: no cut map comes back (not even with the cuts of the tokens before it)
\* and the request produces no query.
C7_TimeCutErrors ==
    (CleanReturned /\ \E i \in 1..Len(TimeTokensOf) : UnresolvableToken(i)) =>
        /\ CleanFailed
        /\ cuts_map = EmptyMap
        /\ args = NoArgs
        /\ resolved = NoResolved
        /\ queries = <<>>

\* year.latest has failed over an empty list of years
C7_Witness ==
    /\ pc = "error"
    /\ req.time = Some(TimeToken("year", W("latest")))
    /\ cube_cache.year_level # None
    /\ cube_cache.year_values = Some(<<>>)
    /\ cuts_map = EmptyMap
(***************************************************************************)
(* Properties of the binder.                                               *)
(***************************************************************************)
BindReturned == bind_pc \in {"ok", "error"}

\* the query names a property whose level is not among its drilldowns
PropertyWithoutDrill ==
    \E p \in RangeOf(bind_req.query.properties) :
        p.level_name \notin RangeOf(bind_req.query.drilldowns)

\* sql_query has refused the query with the given message, without SQL or headers
Refused(why) ==
    /\ bind_pc = "error"
    /\ bind_result.err = why
    /\ bind_result.sql = None
    /\ bind_result.headers = <<>>

BoundCube == CHOOSE c \in RangeOf(TheSchema.cubes) : c.name = bind_req.cube
BoundLevels(ln) ==
    LET d == CHOOSE x \in RangeOf(BoundCube.dimensions) : x.name = ln.dimension
        h == CHOOSE x \in RangeOf(d.hierarchies) : x.name = ln.hierarchy
    IN h.levels
BoundDepth(ln) == CHOOSE i \in 1..Len(BoundLevels(ln)) : BoundLevels(ln)[i].name = ln.level

RECURSIVE SumOf(_)
SumOf(ns) == IF ns = <<>> THEN 0 ELSE Head(ns) + SumOf(Tail(ns))

RECURSIVE ExpectedLevelHeaders(_, _, _)
\* for the levels at places i..d: "<Level> ID" when the level has a name column,
\* then "<Level>"
ExpectedLevelHeaders(levels, i, d) ==
    IF i > d THEN <<>>
    ELSE (IF levels[i].name_column # None THEN <<<<levels[i].name, " ID">>>> ELSE <<>>)
         \o <<<<levels[i].name>>>>
         \o ExpectedLevelHeaders(levels, i + 1, d)

RECURSIVE PropertyNamesOf(_, _, _)
\* the names of the properties of the drill, in request order
PropertyNamesOf(drill, properties, i) ==
    IF i > Len(properties) THEN <<>>
    ELSE (IF properties[i].level_name = drill THEN <<<<properties[i].property>>>> ELSE <<>>)
         \o PropertyNamesOf(drill, properties, i + 1)

ExpectedDrillHeaders(query, k) ==
    LET drill == query.drilldowns[k]
        d == BoundDepth(drill)
    IN ExpectedLevelHeaders(BoundLevels(drill), IF query.parents THEN 1 ELSE d, d)
       \o PropertyNamesOf(drill, query.properties, 1)

ExpectedHeaders(query) ==
    Concat([k \in 1..Len(query.drilldowns) |-> ExpectedDrillHeaders(query, k)])
    \o query.measures

\* the key, name and property columns cube_drill_cols bound
BoundColumnCount(drill_cols) ==
    SumOf([k \in 1..Len(drill_cols) |->
              SumOf([i \in 1..Len(drill_cols[k].level_columns) |->
                        IF drill_cols[k].level_columns[i].name_column # None THEN 2 ELSE 1])
              + Len(drill_cols[k].property_columns)])

\* C9: for a query sql_query binds, the headers are, per drill in request order,
\* for each bound level column "<Level> ID" (exactly when the level has a name
\* column) then "<Level>", then the drill's property names in request order, and
\* after all drills the measure names in request order; their number is the
\* number of key, name and property columns bound by cube_drill_cols plus the
\* number of measures.
C9_HeaderColumnAlignment ==
    bind_pc = "ok" =>
        /\ bind_result.headers = ExpectedHeaders(bind_req.query)
        /\ Len(bind_result.headers) =
              BoundColumnCount(Unwrap(bind_result.sql).drill_cols)
              + Len(bind_req.query.measures)

\* County with its property, under parents, with two measures: nine headers
C9_Witness ==
    /\ bind_pc = "ok"
    /\ bind_req.query.parents
    /\ bind_req.query.drilldowns = <<LevelNameOf("Geography", "Geography", "County")>>
    /\ bind_req.query.properties = <<AreaOfCounty>>
    /\ bind_result.headers = <<<<"Nation", " ID">>, W("Nation"), W("State"),
                               <<"County", " ID">>, W("County"), W("Area"),
                               W("Quantity"), W("Revenue")>>

\* C10: cube_drill_cols on a drill to the level at index d of its hierarchy gives
\* d+1 level columns, those of the levels 0..d in hierarchy order, when parents is
\* true, and the one level column of level d when parents is false.
C10_DrillMonotonicity ==
    bind_pc = "ok" =>
        LET drill_cols == Unwrap(bind_result.sql).drill_cols
            drills == bind_req.query.drilldowns
        IN /\ Len(drill_cols) = Len(drills)
           /\ \A k \in 1..Len(drills) :
                 LET levels == BoundLevels(drills[k])
                     place == BoundDepth(drills[k])
                     level_columns == drill_cols[k].level_columns
                     ColumnOf(i) == [key_column |-> levels[i].key_column,
                                     name_column |-> levels[i].name_column]
                 IN IF bind_req.query.parents
                    THEN /\ Len(level_columns) = place
                         /\ \A i \in 1..place : level_columns[i] = ColumnOf(i)
                    ELSE level_columns = <<ColumnOf(place)>>

\* a drill on County (index 2) under parents has bound three level columns
C10_Witness ==
    /\ bind_pc = "ok"
    /\ bind_req.query.parents
    /\ \E k \in 1..Len(bind_req.query.drilldowns) :
          /\ bind_req.query.drilldowns[k] = LevelNameOf("Geography", "Geography", "County")
          /\ Len(Unwrap(bind_result.sql).drill_cols[k].level_columns) = 3

(***************************************************************************)
(* Properties of the handler.                                              *)
(***************************************************************************)
Answered == srv_pc = "responded" /\ response.status = 200
\* the dataframe the back-end returned for query i
ReplyOf(i) == Unwrap(futs[i])
\* the rows of a column, as text
RowStrings(column_data) ==
    [j \in 1..Len(column_data.data) |->
        IF column_data.type = "Text" THEN column_data.data[j]
        ELSE IF column_data.type \in NumericTypes THEN ToString(column_data.data[j])
        ELSE ToString(column_data.data[j][1])]
RECURSIVE RowsInQueryOrder(_, _)
\* the rows of column k of the dataframes of queries i, i+1, ...
RowsInQueryOrder(k, i) ==
    IF i > Len(futs) THEN <<>>
    ELSE [j \in 1..Len(ReplyOf(i).columns[k].column_data.data) |-> ToString(CellValue(i, j, k))]
         \o RowsInQueryOrder(k, i + 1)

\* C11: the dataframes of a request are combined in the order of its internal
\* queries, whatever order the executions completed in: column k of the result
\* is the rows of column k of query 1, then of query 2, and so on.
C11_JoinOrder ==
    Answered =>
        /\ Len(response.body.columns) = Len(ReplyOf(1).columns)
        /\ \A k \in 1..Len(response.body.columns) :
              RowStrings(response.body.columns[k].column_data) = RowsInQueryOrder(k, 1)

\* two queries with rows each, the second of which completed first
C11_Witness ==
    /\ Answered
    /\ completed = <<2, 1>>
    /\ \A i \in 1..2 : Len(ReplyOf(i).columns[1].column_data.data) > 0

\* the types of column k in the dataframes of the request
TypesOf(k) == {ReplyOf(i).columns[k].column_data.type : i \in 1..Len(futs)}

\* C12 as stated: a column of the result is Text when the dataframes disagree
\* on its type, and keeps the type they agree on otherwise.
C12_TextIffTypesDisagree ==
    Answered =>
        \A k \in 1..Len(response.body.columns) :
            IF Cardinality(TypesOf(k)) > 1
            THEN response.body.columns[k].column_data.type = "Text"
            ELSE response.body.columns[k].column_data.type \in TypesOf(k)

\* the loads the request has read so far
LoadsSeen == {seen[part] : part \in {"schema", "config", "cache", "bind"}} \ {0}

C14_ErrorsSanitized ==
    (srv_pc = "responded" /\ failure # "") =>
        IF debug THEN response.body = failure
        ELSE /\ response.body = "Internal Server Error 1010"
             /\ response.body \notin ErrTexts
             /\ \A e \in ErrTexts : map_err(debug, e) = response

\* an execution failed and debug is off
C14_Witness == srv_pc = "responded" /\ failure \in ErrTexts /\ ~debug

(***************************************************************************)
(* Properties of the drilldown argument.                                   *)
(***************************************************************************)
Parsed == pc \in {"parsed", "resolved", "done"}
DrillTokensOf == IF req.drilldowns = None THEN <<>> ELSE deserialize_args(Unwrap(req.drilldowns))
\* the level a drilldown token names, through the named sets of the config and
\* the level map of the cache
LevelOfToken(token) ==
    LET sub == IF ll_config = None THEN None
               ELSE substitute_drill_value(Unwrap(ll_config), token)
        level_name == GetByStr(cube_cache.level_map, IF sub = None THEN token ELSE W(Unwrap(sub)))
    IN  IF level_name # None /\ get_level(SalesCube, Unwrap(level_name)) # None
        THEN level_name ELSE None
RECURSIVE ResolvingTokens(_, _)
\* the levels of the tokens i, i+1, ... that name a level, in request order
ResolvingTokens(tokens, i) ==
    IF i > Len(tokens) THEN <<>>
    ELSE LevelOfToken(tokens[i]) \o ResolvingTokens(tokens, i + 1)

\* C15 as stated: an unknown drilldown token raises no error and every other
\* token that names a level of the cube is emitted as a drilldown, in order.
C15_UnknownDrillDropped ==
    Parsed => args.drilldowns = ResolvingTokens(DrillTokensOf, 1)

(***************************************************************************)
(* Properties of deserialize_args.                                         *)
(***************************************************************************)
Deserialized == call.fn = "deserialize_args"
\* position i of the argument lies inside brackets: the nearest bracket
\* before it is an opening one
InBrackets(arg, i) ==
    \E j \in 1..(i - 1) : /\ arg[j] = "["
                          /\ \A m \in (j + 1)..(i - 1) : arg[m] \notin {"[", "]"}
\* the commas that separate segments
Separators(arg) == {i \in 1..Len(arg) : arg[i] = "," /\ ~InBrackets(arg, i)}
\* the position of the p-th separator; 0 before the first segment and
\* Len(arg) + 1 after the last
Boundary(arg, p) ==
    IF p = 0 THEN 0
    ELSE IF p > Cardinality(Separators(arg)) THEN Len(arg) + 1
    ELSE CHOOSE i \in Separators(arg) :
            Cardinality({j \in Separators(arg) : j < i}) = p - 1
RECURSIVE WithoutBrackets(_)
WithoutBrackets(s) ==
    IF s = <<>> THEN <<>>
    ELSE IF Head(s) \in {"[", "]"} THEN WithoutBrackets(Tail(s))
    ELSE <<Head(s)>> \o WithoutBrackets(Tail(s))
\* the p-th segment, brackets removed
Segment(arg, p) ==
    WithoutBrackets(SubSeq(arg, Boundary(arg, p - 1) + 1, Boundary(arg, p) - 1))
Segments(arg) == [p \in 1..(Cardinality(Separators(arg)) + 1) |-> Segment(arg, p)]
WithoutEmptyLast(segs) ==
    IF segs[Len(segs)] = <<>> THEN SubSeq(segs, 1, Len(segs) - 1) ELSE segs

\* C16 (as the code has it): deserialize_args returns, in order, the segments
\* of its argument between the commas outside brackets, with the commas inside
\* brackets kept and the brackets removed, except that a last segment that is
\* empty is not returned; no token holds a bracket.
C16_BracketAwareSplit ==
    Deserialized =>
        /\ call.ret = WithoutEmptyLast(Segments(call.arg))
        /\ \A t \in 1..Len(call.ret) :
              \A c \in 1..Len(call.ret[t]) : call.ret[t][c] \notin {"[", "]"}

\* a comma inside brackets is kept, the comma outside ends the segment, and the
\* empty segment after it is left out
C16_Witness ==
    /\ Deserialized
    /\ call.arg = <<"[", ",", "]", ",">>
    /\ call.ret = <<<<",">>>>

\* C16 as stated: deserialize_args returns every segment between the commas
\* outside brackets.
C16_EverySegment ==
    Deserialized => call.ret = Segments(call.arg)

(***************************************************************************)
(* Properties of the header map.                                           *)
(***************************************************************************)
ResolvedOk == pc \in {"resolved", "done"}
\* the levels addressed by their short name as a cut key
LevelKeyLevels ==
    {cube_cache.level_map[k] :
        k \in {x \in DOMAIN cuts_map : /\ cuts_map[x] # <<>>
                                       /\ x \notin DOMAIN cube_cache.dimension_caches
                                       /\ x \in DOMAIN cube_cache.level_map}}
\* the elements of the cut values under key k
ElementsUnder(k) ==
    {Split(Split(cuts_map[k], ",")[i], ":")[1] : i \in 1..Len(Split(cuts_map[k], ","))}
\* the levels reached through a dimension name as the cut key
DimensionKeyLevels ==
    UNION {{cube_cache.dimension_caches[k].id_map[e][1] :
               e \in {x \in ElementsUnder(k) : x \in DOMAIN cube_cache.dimension_caches[k].id_map}} :
           k \in {x \in DOMAIN cuts_map : /\ cuts_map[x] # <<>>
                                          /\ x \in DOMAIN cube_cache.dimension_caches}}
OnlyLevelCut(l) ==
    /\ l.dimension \in DOMAIN resolved.dcm
    /\ DOMAIN resolved.dcm[l.dimension] = {l}
Renamed(l) == l.level \in DOMAIN resolved.header_map /\ resolved.header_map[l.level] = l.dimension

NoRepeat(seq) == \A i, j \in 1..Len(seq) : seq[i] = seq[j] => i = j

\* the levels of the cube's first dimension whose rows hold the key
LevelsEmitting(cube, key) ==
    {j \in 1..Len(LevelsOfDim(cube.dimensions[1], 1)) :
        key \in RangeOf(DistinctIdsOf(cube, LevelsOfDim(cube.dimensions[1], 1)[j]))}

\* C18: after populate_cache every entry of a dimension's id_map holds each
\* LevelName at most once, whether the hierarchy is database-backed or inline, and
\* resolve_cuts never reports a key that one level alone emits as matching
\* multiple levels
C18_IdMapIsSet ==
    /\ (call.fn = "populate_cache" /\ call.outcome = "ok") =>
          \A d \in DOMAIN Unwrap(call.ret).dimension_caches :
             \A k \in DOMAIN Unwrap(call.ret).dimension_caches[d].id_map :
                NoRepeat(Unwrap(call.ret).dimension_caches[d].id_map[k])
    /\ (call.fn = "resolve_cuts"
          /\ Cardinality(LevelsEmitting(call.arg.cube, call.arg.cut)) = 1) =>
          call.ret.err # "matches multiple levels"

\* the window of the i-th key: up to two keys before it, then up to two after it
Window(ids, i) ==
    SubSeq(ids, IF i - 2 < 1 THEN 1 ELSE i - 2, i - 1)
    \o SubSeq(ids, i + 1, IF i + 2 > Len(ids) THEN Len(ids) ELSE i + 2)

\* C19: for a non-empty list of distinct keys get_neighbors_map maps every key to
\* the keys up to two places before it followed by the keys up to two places after
\* it, in list order; a key has at most four neighbors, is never its own neighbor,
\* and being a neighbor is symmetric
C19_NeighborWindow ==
    (call.fn = "get_neighbors_map" /\ call.arg # <<>> /\ NoRepeat(call.arg)) =>
       /\ ~call.ret.panicked
       /\ DOMAIN call.ret.map = RangeOf(call.arg)
       /\ \A i \in 1..Len(call.arg) : call.ret.map[call.arg[i]] = Window(call.arg, i)
       /\ \A k \in DOMAIN call.ret.map :
             /\ Len(call.ret.map[k]) <= 4
             /\ k \notin RangeOf(call.ret.map[k])
             /\ \A l \in DOMAIN call.ret.map :
                   l \in RangeOf(call.ret.map[k]) <=> k \in RangeOf(call.ret.map[l])

\* the list a, b, c, d, e: c has a, b, d, e around it, a has b, c and e has c, d
C19_Witness ==
    /\ call.fn = "get_neighbors_map"
    /\ call.arg = <<"a", "b", "c", "d", "e">>
    /\ ~call.ret.panicked
    /\ call.ret.map["c"] = <<"a", "b", "d", "e">>
    /\ call.ret.map["a"] = <<"b", "c">>
    /\ call.ret.map["e"] = <<"c", "d">>

\* the rows the children loop walks: the rows of the inline table, or the rows the
\* back-end returns for `select distinct ... order by`
InputRows ==
    IF call.fn = "get_inline_children_data"
    THEN [i \in 1..Len(call.arg) |-> <<call.arg[i].region_id, call.arg[i].store_id>>]
    ELSE DistinctPairs("region_id", "store_id", "stores", [stores |-> call.arg])

RECURSIVE ChildrenInOrder(_, _, _, _)
\* the child keys the rows pair with a parent key, each once, in row order
ChildrenInOrder(rows, parent, i, children) ==
    IF i > Len(rows) THEN children
    ELSE ChildrenInOrder(rows, parent, i + 1,
                         IF rows[i][1] = parent /\ rows[i][2] \notin RangeOf(children)
                         THEN Append(children, rows[i][2]) ELSE children)

\* C20: the children map of get_children_data and of get_inline_children_data maps
\* every parent key to its child keys in row order, each child key once, and
\* holds every (parent, child) pair of the rows, whatever the order and the
\* repetition of the rows
C20_ChildrenMap ==
    call.fn \in {"get_children_data", "get_inline_children_data"} =>
       /\ \A i \in 1..Len(call.arg) :
             /\ call.arg[i].region_id \in DOMAIN call.ret
             /\ call.arg[i].store_id \in RangeOf(call.ret[call.arg[i].region_id])
       /\ \A p \in DOMAIN call.ret :
             /\ NoRepeat(call.ret[p])
             /\ call.ret[p] = ChildrenInOrder(InputRows, p, 1, <<>>)

\* the short names populate_cache gives the levels and the properties of the cube
LevelShortNames(a) ==
    [j \in 1..Len(LevelsOfCube(a.cube, 1)) |->
        UniqueLevelName(a.ll_config, EntryLevelName(LevelsOfCube(a.cube, 1)[j]))]
\* the (level, property) pairs of the cube
PropertiesOfCube(cube) ==
    {<<j, k>> \in (1..Len(LevelsOfCube(cube, 1))) \X (1..2) :
        /\ LevelsOfCube(cube, 1)[j].level.properties # None
        /\ k <= Len(Unwrap(LevelsOfCube(cube, 1)[j].level.properties))}
PropertyShortName(cube, jk) == Unwrap(LevelsOfCube(cube, 1)[jk[1]].level.properties)[jk[2]].name
\* two levels, or two properties, of the cube have one short name
NamesCollide(a) ==
    \/ ~NoRepeat(LevelShortNames(a))
    \/ \E x, y \in PropertiesOfCube(a.cube) :
          x # y /\ PropertyShortName(a.cube, x) = PropertyShortName(a.cube, y)

\* C21: when two levels or two properties of a cube come to the same short name,
\* populate_cache fails; it never returns a cache in which one has replaced the
\* other in level_map, property_map or level_caches
C21_CollisionIsError ==
    (call.fn = "populate_cache" /\ NamesCollide(call.arg)) => call.outcome = "error"

\* C26: get_neighbors_map returns, without a crash, a map with one entry per
\* key of its input, for every input, the empty list (and the empty map for
\* it) included, and a level without keys does not abort populate_cache
C26_NeighborsTotal ==
    /\ call.fn = "get_neighbors_map" =>
          /\ ~call.ret.panicked
          /\ DOMAIN call.ret.map = RangeOf(call.arg)
    /\ call.fn = "populate_cache" => call.outcome # "panic"

\* C27: for every level resolve_cuts resolves and applies :children, :parents or
\* :neighbors to, the lookup in level_caches finds an entry, also when the
\* config gives the level another short name: populate_cache and resolve_cuts
\* use the same key for a level
C27_CacheKeyAgreement ==
    (Resolved /\ SingleCut /\ ResolvedLevel # None
       /\ (HasOperation("children") \/ HasOperation("parents") \/ HasOperation("neighbors")))
    => resolved.err # "no level cache"

(***************************************************************************)
(* Properties of the binder: foreign keys.                                 *)
(***************************************************************************)
\* the level names the query binds: its drills and the levels of its cuts
BoundLevelNames ==
    RangeOf(bind_req.query.drilldowns)
    \cup {bind_req.query.cuts[i].level_name : i \in 1..Len(bind_req.query.cuts)}
\* the level name is of a dimension of the cube that declares no foreign key and
\* of a hierarchy with a table of its own
NeedsForeignKey(cube, ln) ==
    \E di \in 1..Len(cube.dimensions) :
       /\ cube.dimensions[di].name = ln.dimension
       /\ cube.dimensions[di].foreign_key = None
       /\ \E hi \in 1..Len(cube.dimensions[di].hierarchies) :
             /\ cube.dimensions[di].hierarchies[hi].name = ln.hierarchy
             /\ cube.dimensions[di].hierarchies[hi].table # None

\* C22: binding a drill or a cut fails for a missing foreign key only when the
\* dimension declares none and the hierarchy has a table of its own; a hierarchy
\* bound to the fact table binds without a foreign key
C22_MissingForeignKey ==
    (BindReturned /\ bind_result.detail = "No foreign key") =>
        \E c \in 1..Len(TheSchema.cubes) :
           /\ TheSchema.cubes[c].name = bind_req.cube
           /\ \E ln \in BoundLevelNames : NeedsForeignKey(TheSchema.cubes[c], ln)


(***************************************************************************)
(* Properties of the SQL generator                                         *)
(***************************************************************************)
PrimaryAggCalled == call.fn = "primary_agg"
\* the where clauses of the fact query that are written "fk in (select ...)"
InSelectClauses ==
    LET where == call.ret.final_sql.fact.where IN
    {k \in 1..Len(where) : where[k].in_select # None}
\* the cuts of the call that are external, by their place in the call
ExternalCutPlaces ==
    {i \in 1..Len(call.arg.cuts) : IsExternal(call.arg.cuts[i], call.arg.table)}
\* the k-th where clause is the in-select of the cut c
ClauseOfCut(k, c) ==
    LET clause == call.ret.final_sql.fact.where[k] IN
    /\ clause.in_select # None
    /\ clause.foreign_key = c.foreign_key
    /\ Unwrap(clause.in_select).primary_key = c.primary_key
    /\ Unwrap(clause.in_select).cut_table.name = c.table.name
    /\ Unwrap(clause.in_select).cut_table.literal = c.inline_table
    /\ (Unwrap(clause.in_select).where = None) <=> (c.members = <<>>)
    /\ Unwrap(clause.in_select).where # None =>
          /\ Unwrap(Unwrap(clause.in_select).where).column = c.column
          /\ Unwrap(Unwrap(clause.in_select).where).members = c.members
\* the external drills of the call
ExternalDrills == External(call.arg.drills, call.arg.table)

\* C23: every external cut of a call of primary_agg is written once in the
\* where of the fact query, as "foreign key in (select primary key from cut
\* table where filter)", the filter left out exactly when the cut has no
\* members; no dimension subquery has a where, and there is one dimension
\* subquery per external drill
C23_ExternalCuts ==
    PrimaryAggCalled =>
       /\ Cardinality(InSelectClauses) = Cardinality(ExternalCutPlaces)
       /\ \A i \in ExternalCutPlaces :
             \E k \in InSelectClauses :
                /\ Cardinality({j \in ExternalCutPlaces : j < i})
                      = Cardinality({l \in InSelectClauses : l < k})
                /\ ClauseOfCut(k, call.arg.cuts[i])
       /\ Len(call.ret.final_sql.joins) = Len(ExternalDrills)
       /\ \A j \in 1..Len(call.ret.final_sql.joins) :
             /\ call.ret.final_sql.joins[j].from.where = <<>>
             /\ \E d \in 1..Len(ExternalDrills) :
                   /\ call.ret.final_sql.joins[j].using = ExternalDrills[d].foreign_key
                   /\ call.ret.final_sql.joins[j].from.from.name = ExternalDrills[d].table.name
\* a call with an external cut without members, an external cut with members,
\* a cut on an inline-table literal or an inline cut, and an external drill
C23_Witness ==
    /\ PrimaryAggCalled
    /\ \E i, j \in ExternalCutPlaces :
          call.arg.cuts[i].members = <<>> /\ call.arg.cuts[j].members # <<>>
    /\ ExternalDrills # <<>>

\* the foreign key of some external drill is the primary key of the fact table
PrimaryKeyMatch ==
    /\ call.arg.table.primary_key # None
    /\ \E d \in 1..Len(ExternalDrills) :
          ExternalDrills[d].foreign_key = Unwrap(call.arg.table.primary_key)

\* C24: in a call of primary_agg, when the fact table has a primary key and an
\* external drill has it as foreign key, the first subquery joined is one with
\* that foreign key; otherwise the subqueries are joined in the reverse of the
\* order of the external drills in the call
C24_JoinOrder ==
    PrimaryAggCalled =>
       /\ PrimaryKeyMatch =>
             call.ret.final_sql.joins[1].using = Unwrap(call.arg.table.primary_key)
       /\ ~PrimaryKeyMatch =>
             /\ Len(call.ret.final_sql.joins) = Len(ExternalDrills)
             /\ \A j \in 1..Len(ExternalDrills) :
                   call.ret.final_sql.joins[j].from
                      = dim_subquery(Some(ExternalDrills[Len(ExternalDrills) + 1 - j]), None).sql
\* a call where the matching drill is the first of two external drills, so
\* that it is popped last
C24_Witness ==
    /\ PrimaryAggCalled
    /\ PrimaryKeyMatch
    /\ Len(ExternalDrills) = 2
    /\ ExternalDrills[1].foreign_key = Unwrap(call.arg.table.primary_key)
    /\ ExternalDrills[2].foreign_key # Unwrap(call.arg.table.primary_key)
    /\ call.ret.final_sql.joins[1].using = Unwrap(call.arg.table.primary_key)

\* the hidden drills of the call
HiddenOfCall ==
    IF call.arg.hidden_drills = None THEN <<>> ELSE Unwrap(call.arg.hidden_drills)
\* the columns of the hidden drills
HiddenColumns ==
    UNION {RangeOf(ColumnsOfDrill(HiddenOfCall[i].drilldown_sql)) : i \in 1..Len(HiddenOfCall)}
\* a select item names a column, by itself or by its alias
Names(item, column) ==
    \/ item.expr = <<column>>
    \/ item.expr = AliasOf(column)
    \/ item.as = Some(AliasOf(column))
\* the aliases of the drills of the call, in the order of the call
RequestedAliases ==
    Concat([i \in 1..Len(call.arg.drills) |->
              [j \in 1..Len(ColumnsOfDrill(call.arg.drills[i])) |->
                  [expr |-> AliasOf(ColumnsOfDrill(call.arg.drills[i])[j]), as |-> None]]])

\* C25: in a call of primary_agg, every column of a hidden drill is in the
\* select list and in the group by of the fact query and in no other list of
\* the query: not in the columns a join carries up, not in a dimension
\* subquery, not in the final select or group by; and the final select and
\* group by list the aliases of the drills of the call in the order of the call
C25_HiddenDrills ==
    PrimaryAggCalled =>
       LET q == call.ret.final_sql IN
       /\ \A h \in HiddenColumns :
             /\ \E k \in 1..Len(q.fact.select) : Names(q.fact.select[k], h)
             /\ \E k \in 1..Len(q.fact.group_by) : Names(q.fact.group_by[k], h)
             /\ \A j \in 1..Len(q.joins) :
                   /\ \A k \in 1..Len(q.joins[j].select_dim_cols) :
                         ~Names(q.joins[j].select_dim_cols[k], h)
                   /\ \A k \in 1..Len(q.joins[j].from.select) :
                         ~Names(q.joins[j].from.select[k], h)
             /\ \A k \in 1..Len(q.select) : ~Names(q.select[k], h)
             /\ \A k \in 1..Len(q.group_by) : ~Names(q.group_by[k], h)
             /\ \A k \in 1..Len(q.fact.where) : q.fact.where[k].foreign_key # h
       /\ q.group_by = RequestedAliases
       /\ call.ret.final_drill_cols = RequestedAliases
       /\ Len(q.select) = Len(RequestedAliases) + Len(SqlMeasures)
       /\ \A k \in 1..Len(RequestedAliases) : q.select[k] = RequestedAliases[k]
\* a call with a hidden drill, an inline drill and an external drill
C25_Witness ==
    /\ PrimaryAggCalled
    /\ HiddenColumns # {}
    /\ Len(ExternalDrills) = 1
    /\ Len(call.arg.drills) = 2
    /\ \E k \in 1..Len(call.ret.final_sql.fact.group_by) :
          call.ret.final_sql.fact.group_by[k].expr = <<"month">>

(***************************************************************************)
(* Properties of the schema lock                                           *)
(***************************************************************************)
\* the request waits for the read lock of line 191 behind the waiting reload,
\* and the reload waits for the read guard of line 128 to be given back: no
\* step of either is enabled, and no other step changes that
Deadlocked ==
    /\ srv_pc = "generated"
    /\ ~ReadGranted
    /\ schema_lock.writer_waiting
    /\ schema_guards > 0

\* C28: a request is never about to ask for the schema read lock (line 191)
\* while it holds a read guard on it, and the request and a reload never wait
\* for each other
C28_NoReentrantRead ==
    /\ srv_pc = "generated" => schema_guards = 0
    /\ ~Deadlocked

(***************************************************************************)
(* Properties of the queries generate_ts_queries returns                   *)
(***************************************************************************)
\* the orders in which the maps of dimension_cuts_map may be iterated
LevelOrders ==
    {level_order \in [DOMAIN resolved.dcm -> UNION {Perms(DOMAIN resolved.dcm[d]) :
                                                       d \in DOMAIN resolved.dcm}] :
        \A d \in DOMAIN resolved.dcm : level_order[d] \in Perms(DOMAIN resolved.dcm[d])}

\* C29: the queries generate_ts_queries returned are those it returns under
\* every iteration order of dimension_cuts_map and of its level maps: the same
\* queries in the same order, each with its cuts and drilldowns in the same order
C29_Deterministic ==
    pc = "done" =>
       \A dim_order \in Perms(DOMAIN resolved.dcm) :
          \A level_order \in LevelOrders :
             queries = BuildQueries(SalesCube, args, resolved.dcm, dim_order, level_order)

\* C30: when the request names no level twice among its drilldowns, no query
\* generate_ts_queries returned has the same level twice among its drilldowns
C30_NoRepeatedDrilldown ==
    (pc = "done" /\ NoRepeat(args.drilldowns)) =>
       \A q \in 1..Len(queries) :
          \A i, j \in 1..Len(queries[q].drilldowns) :
             queries[q].drilldowns[i] = queries[q].drilldowns[j] => i = j
====
